---- MODULE Spec2Model ----
(***************************************************************************)
(* A model of the Keplog Node.js SDK client: the scope store, the          *)
(* breadcrumb buffer, the event serializer, the transport's validation     *)
(* and the capture pipeline of KeplogClient with its recursion guard.      *)
(*                                                                         *)
(* JavaScript values are tagged records: Str(s) with s a tuple of          *)
(* characters, Num(n), Bool(b), Obj(m) with m a function from keys to      *)
(* values,                                                                 *)
(* Arr(a) with a a sequence of values, and Null.  An optional field is a   *)
(* sequence of length 0 (absent) or 1 (present).                           *)
(***************************************************************************)
EXTENDS Integers, Sequences, FiniteSets, TLC

VARIABLES
    enabled,        \* KeplogClient.enabled
    isCapturing,    \* KeplogClient.isCapturing, the recursion guard
    hasBeforeSend,  \* whether config.beforeSend is configured
    context,        \* Scope.context
    tags,           \* Scope.tags
    user,           \* Scope.user, optional
    breadcrumbs,    \* BreadcrumbManager.breadcrumbs
    calls,          \* every captureError / captureMessage invocation so far
    stack,          \* the invocations whose beforeSend hook is running, innermost last
    maxBreadcrumbs, \* BreadcrumbManager.maxBreadcrumbs
    added,          \* the breadcrumbs given to add since the last clear
    last,           \* the latest call made on a component directly, and its outcome
    node            \* the NodeIntegration of the client and the process it listens to

vars == <<enabled, isCapturing, hasBeforeSend, context, tags, user,
          breadcrumbs, calls, stack, maxBreadcrumbs, added, last, node>>

\* what the methods of KeplogClient other than its constructor leave alone
unitVars == <<maxBreadcrumbs, added, last, node>>

scopeVars == <<context, tags, user>>

(***************************************************************************)
(* Bounds of the model.                                                    *)
(***************************************************************************)
\* the number of captureError / captureMessage invocations in one behaviour
MaxCalls == 3
\* config.maxBreadcrumbs of the modelled client (the code's default is 100)
CrumbCap == 2
\* the invocations of a behaviour checked for progress
MaxLiveCalls == 2
\* the configured timeouts go up to this many steps of 2500 ms
MaxTimeoutSteps == 6
\* the breadcrumbs added to a buffer between two clears
MaxAdds == 4
\* the captures of a behaviour of SpecFlow
MaxFlowCalls == 2

(***************************************************************************)
(* JavaScript values.                                                      *)
(***************************************************************************)
Str(s) == [t |-> "string", s |-> s]
Num(n) == [t |-> "number", n |-> n]
Obj(m) == [t |-> "object", m |-> m]
Arr(a) == [t |-> "array", a |-> a]
Bool(b) == [t |-> "boolean", b |-> b]
Null == [t |-> "null"]
NaN == [t |-> "NaN"]
Infinity == [t |-> "Infinity"]

EmptyMap == [k \in {} |-> Null]

\* JavaScript truthiness of a value
Truthy(v) ==
    CASE v.t = "string" -> v.s # <<>>
      [] v.t = "number" -> v.n # 0
      [] v.t = "boolean" -> v.b
      [] v.t = "null" -> FALSE
      [] v.t = "NaN" -> FALSE
      [] OTHER -> TRUE

\* faulty variant: the first object wins on a colliding key
SpreadFirstWins(g, l) ==
    [k \in (DOMAIN g) \cup (DOMAIN l) |-> IF k \in DOMAIN g THEN g[k] ELSE l[k]]

\* the object spread { ...g, ...l }
Spread(g, l) ==
    [k \in (DOMAIN g) \cup (DOMAIN l) |-> IF k \in DOMAIN l THEN l[k] ELSE g[k]]

\* obj[key] = value
Put(m, key, value) ==
    [k \in (DOMAIN m) \cup {key} |-> IF k = key THEN value ELSE m[k]]

\* localContext?.key as a condition
HasTruthy(l, key) == key \in DOMAIN l /\ Truthy(l[key])

\* the property names of the elements of a string or an array
IndexKeys == <<"0", "1", "2", "3", "4", "5", "6", "7", "8", "9">>

\* the own enumerable properties that { ...v } copies: those of an object,
\* the indexed characters of a string or elements of an array (of at most
\* ten here), and none of a number or a boolean
OwnProperties(v) ==
    CASE v.t = "object" -> v.m
      [] v.t = "string" ->
            [k \in {IndexKeys[i] : i \in DOMAIN v.s} |->
                Str(<<v.s[CHOOSE i \in DOMAIN v.s : IndexKeys[i] = k]>>)]
      [] v.t = "array" ->
            [k \in {IndexKeys[i] : i \in DOMAIN v.a} |->
                v.a[CHOOSE i \in DOMAIN v.a : IndexKeys[i] = k]]
      [] OTHER -> EmptyMap

\* localContext?.key || {} spread into an object
SpreadOf(l, key) ==
    IF HasTruthy(l, key) THEN OwnProperties(l[key]) ELSE EmptyMap

(***************************************************************************)
(* Scope (src/src/scope.ts).                                               *)
(***************************************************************************)
RESERVED_KEYS == {"exception_class", "frames", "queries", "request", "breadcrumbs"}

ALLOWED_IN_CAPTURE == {"user", "request", "queries"}

\* faulty variant: user is refused as well
SetContextThrowsUserToo(key) == key \in RESERVED_KEYS \cup {"user"}

\* setContext throws for this key
SetContextThrows(key) == key \in RESERVED_KEYS

\* faulty variant: no reserved key is allowed in a capture
MergeThrowsAllReserved(localContext) ==
    \E key \in DOMAIN localContext : key \in RESERVED_KEYS

\* merge(localContext) throws: a reserved key that is not allowed in a capture
MergeThrows(localContext) ==
    \E key \in DOMAIN localContext :
        key \in RESERVED_KEYS /\ key \notin ALLOWED_IN_CAPTURE

\* faulty variant: tags is written also when there are no tags at all
MergeAlwaysTags(ctx, tgs, usr, localContext) ==
    LET merged0 == Spread(ctx, localContext)
        merged1 == Put(merged0, "tags",
                       Obj(Spread(tgs, SpreadOf(localContext, "tags"))))
        globalUser == IF usr # <<>> THEN usr[1] ELSE EmptyMap
    IN  IF usr # <<>> \/ HasTruthy(localContext, "user")
        THEN Put(merged1, "user", Obj(Spread(globalUser, SpreadOf(localContext, "user"))))
        ELSE merged1

\* faulty variant: a local user replaces the global user as a whole
MergeUserReplaced(ctx, tgs, usr, localContext) ==
    LET merged0 == Spread(ctx, localContext)
        merged1 ==
            IF DOMAIN tgs # {} \/ HasTruthy(localContext, "tags")
            THEN Put(merged0, "tags", Obj(Spread(tgs, SpreadOf(localContext, "tags"))))
            ELSE merged0
    IN  IF HasTruthy(localContext, "user")
        THEN Put(merged1, "user", Obj(SpreadOf(localContext, "user")))
        ELSE IF usr # <<>> THEN Put(merged1, "user", Obj(usr[1]))
        ELSE merged1

\* merge(localContext) when it does not throw
Merge(ctx, tgs, usr, localContext) ==
    LET merged0 == Spread(ctx, localContext)
        merged1 ==
            IF DOMAIN tgs # {} \/ HasTruthy(localContext, "tags")
            THEN Put(merged0, "tags", Obj(Spread(tgs, SpreadOf(localContext, "tags"))))
            ELSE merged0
        globalUser == IF usr # <<>> THEN usr[1] ELSE EmptyMap
    IN  IF usr # <<>> \/ HasTruthy(localContext, "user")
        THEN Put(merged1, "user", Obj(Spread(globalUser, SpreadOf(localContext, "user"))))
        ELSE merged1

(***************************************************************************)
(* Breadcrumb buffer (BreadcrumbManager).                                  *)
(***************************************************************************)
\* the value Date.now() gives when a breadcrumb has no timestamp
Now == Num(1)

\* the breadcrumb after add has set its missing timestamp; add writes it into
\* the caller's object, which is the object the buffer holds
Stamp(breadcrumb) ==
    IF HasTruthy(breadcrumb, "timestamp")
    THEN breadcrumb
    ELSE Put(breadcrumb, "timestamp", Now)

\* faulty variant: the newest breadcrumb is dropped when the buffer is full
BreadcrumbsAddDropsNewest(list, breadcrumb, max) ==
    LET pushed == Append(list, Obj(Stamp(breadcrumb)))
    IN  IF Len(pushed) > max THEN SubSeq(pushed, 1, Len(pushed) - 1) ELSE pushed

\* add(breadcrumb): stamp, push, and shift the oldest out when over the maximum
BreadcrumbsAdd(list, breadcrumb, max) ==
    LET pushed == Append(list, Obj(Stamp(breadcrumb)))
    IN  IF Len(pushed) > max THEN Tail(pushed) ELSE pushed

\* getAll(): a copy of the buffer
GetAll(list) == list

\* getCount()
GetCount(list) == Len(list)

(***************************************************************************)
(* Stack-trace utilities and the serializer (src/src/serializer.ts).       *)
(*                                                                         *)
(* The values given to captureError are: an Error object                   *)
(* [t |-> "Error", name, message, stack], a string Str(s), Null, and an    *)
(* object whose property reads throw, [t |-> "hostile"].                   *)
(***************************************************************************)
\* faulty variant: user is not among the keys of event.context
ReservedContextKeysWithoutUser ==
    {"exception_class", "frames", "queries", "request", "breadcrumbs"}

RESERVED_CONTEXT_KEYS ==
    {"exception_class", "frames", "queries", "request", "user", "breadcrumbs"}

UnknownError == <<"U","n","k","n","o","w","n"," ","e","r","r","o","r">>

\* the stack of the Error that extractStackTrace creates when the value has none
NewErrorStack == <<"E","r","r","o","r">>

\* reading a property of the value throws
ReadThrows(error) == error.t = "hostile"

ExtractMessage(error) ==
    CASE ~Truthy(error) -> UnknownError
      [] error.t = "Error" ->
            \* JSON.stringify of an Error without a message is "{}"
            IF error.message # <<>> THEN error.message ELSE <<"{", "}">>
      [] error.t = "string" -> error.s

\* faulty variant: only an Error has a stack trace
ExtractStackTraceOfErrorsOnly(error) ==
    IF Truthy(error) /\ error.t = "Error" /\ error.stack # <<>>
    THEN <<error.stack>>
    ELSE <<>>

\* optional: <<>> is undefined
ExtractStackTrace(error) ==
    CASE ~Truthy(error) -> <<>>
      [] error.t = "Error" /\ error.stack # <<>> -> <<error.stack>>
      [] OTHER -> <<NewErrorStack>>

\* error?.constructor?.name || 'Error'
ConstructorName(error) ==
    CASE error.t = "Error" -> error.name
      [] error.t = "string" -> <<"S","t","r","i","n","g">>
      [] OTHER -> <<"E","r","r","o","r">>

\* the frames parsed from an Error's stack; no modelled operation reads them
ParseEnhancedFrames(error) ==
    IF error.stack = <<>> THEN Arr(<<>>) ELSE Arr(<<Obj(EmptyMap)>>)

\* faulty variant: every merged key goes to event.context
SystemKeysAll(merged) == DOMAIN merged

\* the keys of the merged context that go to event.context
SystemKeys(merged) == {k \in DOMAIN merged : k \in RESERVED_CONTEXT_KEYS}

\* queries defaulted, breadcrumbs attached when there are any
WithQueriesAndBreadcrumbs(systemContext, crumbs) ==
    LET q == IF HasTruthy(systemContext, "queries")
             THEN systemContext
             ELSE Put(systemContext, "queries", Arr(<<>>))
    IN  IF Len(crumbs) > 0 THEN Put(q, "breadcrumbs", Arr(crumbs)) ELSE q

\* faulty variant: extra_context holds every merged key
OptionalExtraKeepsAll(merged) ==
    IF DOMAIN merged = {} THEN <<>> ELSE <<merged>>

\* extra_context is optional: attached only when it has keys
OptionalExtra(merged) ==
    LET keys == (DOMAIN merged) \ SystemKeys(merged)
    IN  IF keys = {} THEN <<>> ELSE <<[k \in keys |-> merged[k]]>>

SerializeThrows(error, localContext) ==
    ReadThrows(error) \/ MergeThrows(localContext)

Serialize(error, level, ctx, tgs, usr, crumbs, localContext) ==
    LET merged == Merge(ctx, tgs, usr, localContext)
        sys0 == [k \in SystemKeys(merged) |-> merged[k]]
        sys1 == Put(sys0, "exception_class", Str(ConstructorName(error)))
        sys2 == IF error.t = "Error"
                THEN Put(sys1, "frames", ParseEnhancedFrames(error))
                ELSE sys1
    IN  [t |-> "event",
         message |-> ExtractMessage(error),
         level |-> level,
         stack_trace |-> ExtractStackTrace(error),
         context |-> <<WithQueriesAndBreadcrumbs(sys2, crumbs)>>,
         extra_context |-> OptionalExtra(merged)]

SerializeMessageThrows(localContext) == MergeThrows(localContext)

SerializeMessage(message, level, ctx, tgs, usr, crumbs, localContext) ==
    LET merged == Merge(ctx, tgs, usr, localContext)
        sys0 == [k \in SystemKeys(merged) |-> merged[k]]
    IN  [t |-> "event",
         message |-> message,
         level |-> level,
         stack_trace |-> <<>>,
         context |-> <<WithQueriesAndBreadcrumbs(sys0, crumbs)>>,
         extra_context |-> OptionalExtra(merged)]

(***************************************************************************)
(* Transport (src/src/transport.ts).                                       *)
(***************************************************************************)
MaxMessageLength == 10000
MaxStackLength == 500000
MaxContextSize == 256000

ValidLevels == {"critical", "error", "warning", "info", "debug"}

TruncatedSuffix == <<".",".",".","[","t","r","u","n","c","a","t","e","d","]">>

ContextTooLarge == <<"C","o","n","t","e","x","t"," ","t","o","o"," ","l","a","r","g","e"," ","a","n","d"," ","w","a","s"," ","t","r","u","n","c","a","t","e","d">>

\* the number of characters of a key
KeyLen(k) ==
    CASE k = "exception_class" -> 15
      [] k = "frames" -> 6
      [] k = "queries" -> 7
      [] k = "request" -> 7
      [] k = "breadcrumbs" -> 11
      [] k = "user" -> 4
      [] k = "tags" -> 4
      [] k = "order_id" -> 8
      [] k = "modified" -> 8
      [] k = "timestamp" -> 9
      [] k = "message" -> 7
      [] k = "region" -> 6
      [] k = "id" -> 2
      [] k = "_error" -> 6
      [] k = "_original_size" -> 14
      [] k = "_max_size" -> 9
      [] k = "tier" -> 4
      [] k = "email" -> 5
      [] k = "data" -> 4
      [] k \in {IndexKeys[i] : i \in DOMAIN IndexKeys} -> 1

RECURSIVE Digits(_)
\* the number of decimal digits of a natural number
Digits(n) == IF n < 10 THEN 1 ELSE 1 + Digits(n \div 10)

RECURSIVE JsonLen(_), JsonLenMap(_, _), JsonLenSeq(_)
\* JSON.stringify(v).length, for values whose characters need no escaping
JsonLen(v) ==
    CASE v.t = "string" -> Len(v.s) + 2
      [] v.t = "number" -> Digits(v.n)
      [] v.t = "null" -> 4
      [] v.t = "boolean" -> IF v.b THEN 4 ELSE 5
      [] v.t = "array" ->
            2 + JsonLenSeq(v.a) + (IF Len(v.a) > 0 THEN Len(v.a) - 1 ELSE 0)
      [] v.t = "object" ->
            2 + JsonLenMap(v.m, DOMAIN v.m)
              + (IF DOMAIN v.m # {} THEN Cardinality(DOMAIN v.m) - 1 ELSE 0)

JsonLenMap(m, keys) ==
    IF keys = {} THEN 0
    ELSE LET k == CHOOSE x \in keys : TRUE
         IN  KeyLen(k) + 3 + JsonLen(m[k]) + JsonLenMap(m, keys \ {k})

JsonLenSeq(a) ==
    IF a = <<>> THEN 0 ELSE JsonLen(Head(a)) + JsonLenSeq(Tail(a))

\* faulty variant: the level is not validated
ValidateThrowsOnEmptyOnly(event) == event.message = <<>>

\* validateEvent throws: no message, or a level outside the five
ValidateThrows(event) ==
    \/ event.message = <<>>
    \/ event.level \notin ValidLevels

\* faulty variant: the context is posted whatever its size
ValidateEventKeepsContext(event) ==
    LET message ==
            IF Len(event.message) > MaxMessageLength
            THEN SubSeq(event.message, 1, MaxMessageLength) \o TruncatedSuffix
            ELSE event.message
        stack_trace ==
            IF event.stack_trace # <<>> /\ Len(event.stack_trace[1]) > MaxStackLength
            THEN <<SubSeq(event.stack_trace[1], 1, MaxStackLength)
                    \o <<"\n">> \o TruncatedSuffix>>
            ELSE event.stack_trace
    IN  [event EXCEPT !.message = message, !.stack_trace = stack_trace]

\* faulty variant: the cut leaves room for the suffix, the stack is not cut
ValidateEventWithinLimit(event) ==
    LET message ==
            IF Len(event.message) > MaxMessageLength
            THEN SubSeq(event.message, 1, MaxMessageLength - Len(TruncatedSuffix))
                    \o TruncatedSuffix
            ELSE event.message
    IN  [event EXCEPT !.message = message]

\* validateEvent's truncations, applied to the event in place
ValidateEvent(event) ==
    LET message ==
            IF Len(event.message) > MaxMessageLength
            THEN SubSeq(event.message, 1, MaxMessageLength) \o TruncatedSuffix
            ELSE event.message
        stack_trace ==
            IF event.stack_trace # <<>> /\ Len(event.stack_trace[1]) > MaxStackLength
            THEN <<SubSeq(event.stack_trace[1], 1, MaxStackLength)
                    \o <<"\n">> \o TruncatedSuffix>>
            ELSE event.stack_trace
        contextSize ==
            IF event.context = <<>> THEN 0 ELSE JsonLen(Obj(event.context[1]))
        ctx ==
            IF contextSize > MaxContextSize
            THEN <<Put(Put(Put(EmptyMap, "_error", Str(ContextTooLarge)),
                           "_original_size", Num(contextSize)),
                       "_max_size", Num(MaxContextSize))>>
            ELSE event.context
    IN  [event EXCEPT !.message = message,
                      !.stack_trace = stack_trace,
                      !.context = ctx]

(***************************************************************************)
(* The capture pipeline (KeplogClient).                                    *)
(*                                                                         *)
(* A call record is the activation of one captureError or captureMessage   *)
(* invocation: where it stands (pc: in the hook, awaiting the transport,   *)
(* done), its locals (event, hookRet, sent, posted; gone when it returns), *)
(* its result ("pending", "null", "evt" for an event id, "threw" for a     *)
(* rejected promise), and the history of what it did (exit, the n          *)
(* counters, answer, and the hooks running when it was invoked).           *)
(***************************************************************************)
NewCall(kind) ==
    [kind |-> kind, entryStack |-> stack,
     pc |-> "done", exit |-> "none",
     nSerialize |-> 0, nHook |-> 0, nSend |-> 0, nFetch |-> 0,
     event |-> Null, hookRet |-> Null, sent |-> Null, posted |-> Null,
     answer |-> "none", result |-> "pending"]

\* the call returns: its result is set and its locals are gone
Return(call, exit, result) ==
    [call EXCEPT !.pc = "done", !.exit = exit, !.result = result,
                 !.event = Null, !.hookRet = Null, !.sent = Null, !.posted = Null]

\* faulty variant: the guard is never tested
GuardRejectsNever == FALSE

\* the recursion guard's test at the top of captureError
GuardRejects == isCapturing

\* faulty variant: no finally block, the flag stays set
FinallyFlagMissing == TRUE

\* the finally block of captureError: the value it leaves in isCapturing
FinallyFlag == FALSE

\* the result of a capture when serialization throws: the catch around it
OnSerializeThrow(kind) == "null"

\* faulty variant: captureMessage calls the hook outside its try block
OnHookThrowEscapes(kind) == IF kind = "message" THEN "threw" ELSE "null"

\* the result when the beforeSend hook throws: the inner catch of
\* captureError, the catch of captureMessage
OnHookThrow(kind) == "null"

\* whether the hook's return value drops the event
HookDrops(ret) == ~Truthy(ret)

\* faulty variant: the serialized event is sent, not the hook's
SendArgOriginal(event, ret) == event

\* the event handed to transport.send after the hook returned ret
SendArg(event, ret) == ret

\* Transport.send up to its await: validate, then post unless validation threw
TransportSend(call, event) ==
    IF ValidateThrows(event)
    THEN [call EXCEPT !.pc = "await", !.nSend = @ + 1, !.sent = event]
    ELSE [call EXCEPT !.pc = "await", !.nSend = @ + 1, !.sent = event,
                      !.nFetch = @ + 1, !.posted = ValidateEvent(event)]

\* after serialization: call the hook when one is configured, else send
AfterSerialize(call, event) ==
    IF hasBeforeSend
    THEN [call EXCEPT !.pc = "hook", !.nSerialize = @ + 1, !.nHook = @ + 1,
                      !.event = event]
    ELSE TransportSend([call EXCEPT !.nSerialize = @ + 1, !.event = event], event)

\* faulty variant: the guard is tested inside the try block, so that the finally
\* block of a rejected call releases the guard of the call in flight
CaptureErrorStepGuardInTry(error, localContext) ==
    LET c == NewCall("error")
    IN  IF ~enabled
        THEN [call |-> Return(c, "disabled", "null"), flag |-> isCapturing]
        ELSE IF GuardRejects
        THEN [call |-> Return(c, "guard", "null"), flag |-> FinallyFlag]
        ELSE IF SerializeThrows(error, localContext)
        THEN [call |-> Return([c EXCEPT !.nSerialize = @ + 1], "serializeThrew",
                              OnSerializeThrow("error")),
              flag |-> FinallyFlag]
        ELSE [call |-> AfterSerialize(c, Serialize(error, "error", context, tags,
                                                   user, breadcrumbs, localContext)),
              flag |-> TRUE]

\* captureError up to its first suspension: the call and the guard it leaves
CaptureErrorStep(error, localContext) ==
    LET c == NewCall("error")
    IN  IF ~enabled
        THEN [call |-> Return(c, "disabled", "null"), flag |-> isCapturing]
        ELSE IF GuardRejects
        THEN [call |-> Return(c, "guard", "null"), flag |-> isCapturing]
        ELSE IF SerializeThrows(error, localContext)
        THEN [call |-> Return([c EXCEPT !.nSerialize = @ + 1], "serializeThrew",
                              OnSerializeThrow("error")),
              flag |-> FinallyFlag]
        ELSE [call |-> AfterSerialize(c, Serialize(error, "error", context, tags,
                                                   user, breadcrumbs, localContext)),
              flag |-> TRUE]

\* faulty variant: captureMessage does not test enabled
CaptureMessageStepAlwaysOn(message, level, localContext) ==
    LET c == NewCall("message")
    IN  IF SerializeMessageThrows(localContext)
        THEN Return([c EXCEPT !.nSerialize = @ + 1], "serializeThrew",
                    OnSerializeThrow("message"))
        ELSE AfterSerialize(c, SerializeMessage(message, level, context, tags,
                                                user, breadcrumbs, localContext))

\* faulty variant: captureMessage is rejected by the recursion guard too
CaptureMessageStepGuarded(message, level, localContext) ==
    LET c == NewCall("message")
    IN  IF ~enabled
        THEN Return(c, "disabled", "null")
        ELSE IF GuardRejects
        THEN Return(c, "guard", "null")
        ELSE IF SerializeMessageThrows(localContext)
        THEN Return([c EXCEPT !.nSerialize = @ + 1], "serializeThrew",
                    OnSerializeThrow("message"))
        ELSE AfterSerialize(c, SerializeMessage(message, level, context, tags,
                                                user, breadcrumbs, localContext))

\* captureMessage up to its first suspension
CaptureMessageStep(message, level, localContext) ==
    LET c == NewCall("message")
    IN  IF ~enabled
        THEN Return(c, "disabled", "null")
        ELSE IF SerializeMessageThrows(localContext)
        THEN Return([c EXCEPT !.nSerialize = @ + 1], "serializeThrew",
                    OnSerializeThrow("message"))
        ELSE AfterSerialize(c, SerializeMessage(message, level, context, tags,
                                                user, breadcrumbs, localContext))

\* faulty variant: a falsy return falls back to the serialized event
HookReturnedFallsBack(call, ret) ==
    IF HookDrops(ret)
    THEN TransportSend([call EXCEPT !.hookRet = ret], call.event)
    ELSE TransportSend([call EXCEPT !.hookRet = ret], SendArg(call.event, ret))

\* the call whose hook returned ret: dropped, or handed to the transport
HookReturned(call, ret) ==
    IF HookDrops(ret)
    THEN Return(call, "hookDropped", "null")
    ELSE TransportSend([call EXCEPT !.hookRet = ret], SendArg(call.event, ret))

\* faulty variant: the hook's error is swallowed and the serialized event is sent
HookThrewSendsAnyway(call) == TransportSend(call, call.event)

\* the call whose hook threw
HookThrew(call) == Return(call, "hookThrew", OnHookThrow(call.kind))

\* what the network collaborator answers to a request
Answers ==
    {"202", "202-unreadable-body", "401", "400", "500", "network-error", "abort"}

\* faulty variant: send has no catch, what is thrown inside it escapes
SendResultRethrows(answer) ==
    CASE answer = "202" -> "evt"
      [] answer \in {"invalid", "network-error", "abort", "202-unreadable-body",
                     "400-unreadable-body"} -> "threw"
      [] OTHER -> "null"

\* the result of send: an event id on 202 with a readable body, null for
\* every other answer and when validation threw ("invalid")
SendResult(answer) == IF answer = "202" THEN "evt" ELSE "null"

\* the answers a call awaiting the transport can get: none other than the
\* validation failure when send posted nothing
\* faulty variant: no timer aborts the request, which is never answered
AnswersForNever(call) == {}

AnswersFor(call) == IF call.nFetch = 0 THEN {"invalid"} ELSE Answers

\* faulty variant: a failed request is posted once more
SettleRetries(call, answer) ==
    IF answer \notin {"202", "invalid"} /\ call.nFetch < 2
    THEN [call EXCEPT !.nFetch = @ + 1]
    ELSE Return([call EXCEPT !.answer = answer], "sent", SendResult(answer))

\* the call whose transport.send resolved: it returns, and is never re-sent
Settle(call, answer) ==
    Return([call EXCEPT !.answer = answer], "sent", SendResult(answer))

Top == stack[Len(stack)]

\* no call has been made on a component directly
NoCall == [op |-> "none"]

(***************************************************************************)
(* NodeIntegration (src/src/integrations/node.ts) and the process.  A      *)
(* handler is a bound function, told from the others by a number; 0 is     *)
(* null.  onUncaughtException and onUnhandledRejection are the listeners   *)
(* of the process that integrations of this client registered.  sdkPath   *)
(* is where the files of the SDK are, which the stack of an Error created  *)
(* inside the SDK shows.                                                   *)
(***************************************************************************)
\* new NodeIntegration(client, exitOnUncaught), in a process that runs
NodeIntegration(exitOnUncaught, sdkPath) ==
    [exitOnUncaught |-> exitOnUncaught, sdkPath |-> sdkPath,
     uncaughtExceptionHandler |-> 0, unhandledRejectionHandler |-> 0,
     bound |-> 0,
     onUncaughtException |-> <<>>, onUnhandledRejection |-> <<>>,
     signals |-> <<>>, emitting |-> <<>>, runs |-> <<>>, exited |-> FALSE]

\* the SDK installed from npm, and bundled into a file of the application
NpmPath == <<"@","k","e","p","l","o","g","/","n","o","d","e","/","n",".","j","s">>
BundlePath == <<"a","p","p",".","j","s">>

\* a client whose automatic handlers are not in use
NoNode == NodeIntegration(TRUE, NpmPath)

\* install(): binds the two handlers anew and registers them
Install(n) ==
    [n EXCEPT !.bound = @ + 1,
              !.uncaughtExceptionHandler = n.bound + 1,
              !.onUncaughtException = Append(@, n.bound + 1),
              !.unhandledRejectionHandler = n.bound + 1,
              !.onUnhandledRejection = Append(@, n.bound + 1)]

\* process.removeListener(name, listener) on the list of the name
RemoveListener(list, listener) == SelectSeq(list, LAMBDA l : l # listener)

\* uninstall(): removes the handlers that the fields hold, when they hold any
Uninstall(n) ==
    LET n1 == IF n.uncaughtExceptionHandler # 0
              THEN [n EXCEPT !.onUncaughtException =
                                RemoveListener(@, n.uncaughtExceptionHandler),
                             !.uncaughtExceptionHandler = 0]
              ELSE n
    IN  IF n1.unhandledRejectionHandler # 0
        THEN [n1 EXCEPT !.onUnhandledRejection =
                            RemoveListener(@, n1.unhandledRejectionHandler),
                        !.unhandledRejectionHandler = 0]
        ELSE n1

Init ==
    /\ enabled \in BOOLEAN
    /\ isCapturing = FALSE
    /\ hasBeforeSend \in BOOLEAN
    /\ context = EmptyMap
    /\ tags = EmptyMap
    /\ user = <<>>
    /\ breadcrumbs = <<>>
    /\ calls = <<>>
    /\ stack = <<>>
    /\ maxBreadcrumbs = CrumbCap
    /\ added = <<>>
    /\ last = NoCall
    /\ node = NoNode

\* faulty variant: a call that the guard rejects resets the flag on its way out
CaptureErrorRejectedReleases(error, localContext) ==
    /\ LET step == CaptureErrorStep(error, localContext)
       IN  /\ calls' = Append(calls, step.call)
           /\ isCapturing' = IF step.call.exit = "guard" THEN FALSE ELSE step.flag
           /\ stack' = IF step.call.pc = "hook"
                       THEN Append(stack, Len(calls) + 1)
                       ELSE stack
    /\ UNCHANGED unitVars
    /\ UNCHANGED <<enabled, hasBeforeSend, context, tags, user, breadcrumbs>>

\* faulty variant: a capture that gets past the guard empties the buffer
CaptureErrorConsumesBreadcrumbs(error, localContext) ==
    /\ LET step == CaptureErrorStep(error, localContext)
       IN  /\ calls' = Append(calls, step.call)
           /\ isCapturing' = step.flag
           /\ stack' = IF step.call.pc = "hook"
                       THEN Append(stack, Len(calls) + 1)
                       ELSE stack
           /\ breadcrumbs' = IF step.call.nSerialize > 0 THEN <<>> ELSE breadcrumbs
    /\ UNCHANGED unitVars
    /\ UNCHANGED <<enabled, hasBeforeSend, context, tags, user>>

\* captureError(error, localContext), from the program or from a running hook
CaptureError(error, localContext) ==
    /\ LET step == CaptureErrorStep(error, localContext)
       IN  /\ calls' = Append(calls, step.call)
           /\ isCapturing' = step.flag
           /\ stack' = IF step.call.pc = "hook"
                       THEN Append(stack, Len(calls) + 1)
                       ELSE stack
    /\ UNCHANGED unitVars
    /\ UNCHANGED <<enabled, hasBeforeSend, context, tags, user, breadcrumbs>>

\* captureMessage(message, level, localContext)
CaptureMessage(message, level, localContext) ==
    /\ LET call == CaptureMessageStep(message, level, localContext)
       IN  /\ calls' = Append(calls, call)
           /\ stack' = IF call.pc = "hook"
                       THEN Append(stack, Len(calls) + 1)
                       ELSE stack
    /\ UNCHANGED unitVars
    /\ UNCHANGED <<enabled, isCapturing, hasBeforeSend, context, tags, user,
                   breadcrumbs>>

\* the innermost running hook returns ret
BeforeSendReturns(ret) ==
    /\ stack # <<>>
    /\ LET call == HookReturned(calls[Top], ret)
       IN  /\ calls' = [calls EXCEPT ![Top] = call]
           /\ isCapturing' = IF call.kind = "error" /\ call.pc = "done"
                             THEN FinallyFlag
                             ELSE isCapturing
    /\ stack' = SubSeq(stack, 1, Len(stack) - 1)
    /\ UNCHANGED unitVars
    /\ UNCHANGED <<enabled, hasBeforeSend, context, tags, user, breadcrumbs>>

\* the innermost running hook throws
BeforeSendThrows ==
    /\ stack # <<>>
    /\ calls' = [calls EXCEPT ![Top] = HookThrew(calls[Top])]
    /\ isCapturing' = IF calls[Top].kind = "error" THEN FinallyFlag ELSE isCapturing
    /\ stack' = SubSeq(stack, 1, Len(stack) - 1)
    /\ UNCHANGED unitVars
    /\ UNCHANGED <<enabled, hasBeforeSend, context, tags, user, breadcrumbs>>

\* transport.send of call c resolves and the capture returns; no hook is
\* running, since a hook runs to completion before any continuation
TransportSettles(c, answer) ==
    /\ stack = <<>>
    /\ c \in DOMAIN calls
    /\ calls[c].pc = "await"
    /\ answer \in AnswersFor(calls[c])
    /\ calls' = [calls EXCEPT ![c] = Settle(calls[c], answer)]
    /\ isCapturing' = IF calls[c].kind = "error" THEN FinallyFlag ELSE isCapturing
    /\ UNCHANGED unitVars
    /\ UNCHANGED <<enabled, hasBeforeSend, context, tags, user, breadcrumbs, stack>>

SetEnabled(b) ==
    /\ enabled' = b
    /\ UNCHANGED unitVars
    /\ UNCHANGED <<isCapturing, hasBeforeSend, context, tags, user, breadcrumbs,
                   calls, stack>>

\* faulty variant: getAll hands out the buffer itself, so that a breadcrumb
\* added later is also in the events built before
AddBreadcrumbReachesEvents(breadcrumb) ==
    /\ breadcrumbs' = IF ~enabled
                      THEN breadcrumbs
                      ELSE BreadcrumbsAdd(breadcrumbs, breadcrumb, maxBreadcrumbs)
    /\ calls' = [c \in DOMAIN calls |->
                    IF calls[c].pc \in {"hook", "await"}
                    THEN [calls[c] EXCEPT !.event.context =
                            <<Put(@[1], "breadcrumbs", Arr(breadcrumbs'))>>]
                    ELSE calls[c]]
    /\ UNCHANGED unitVars
    /\ UNCHANGED <<enabled, isCapturing, hasBeforeSend, context, tags, user, stack>>

\* addBreadcrumb(breadcrumb): nothing on a disabled client
AddBreadcrumb(breadcrumb) ==
    /\ breadcrumbs' = IF ~enabled
                      THEN breadcrumbs
                      ELSE BreadcrumbsAdd(breadcrumbs, breadcrumb, maxBreadcrumbs)
    /\ UNCHANGED unitVars
    /\ UNCHANGED <<enabled, isCapturing, hasBeforeSend, context, tags, user,
                   calls, stack>>

\* setContext(key, value): throws, changing nothing, for a reserved key
SetContext(key, value) ==
    /\ context' = IF SetContextThrows(key) THEN context ELSE Put(context, key, value)
    /\ UNCHANGED unitVars
    /\ UNCHANGED <<enabled, isCapturing, hasBeforeSend, tags, user, breadcrumbs,
                   calls, stack>>

SetTag(key, value) ==
    /\ tags' = Put(tags, key, value)
    /\ UNCHANGED unitVars
    /\ UNCHANGED <<enabled, isCapturing, hasBeforeSend, context, user, breadcrumbs,
                   calls, stack>>

SetUser(u) ==
    /\ user' = <<u>>
    /\ UNCHANGED unitVars
    /\ UNCHANGED <<enabled, isCapturing, hasBeforeSend, context, tags, breadcrumbs,
                   calls, stack>>

\* faulty variant: clearScope leaves the breadcrumb buffer alone
ClearScopeKeepsBreadcrumbs ==
    /\ context' = EmptyMap
    /\ tags' = EmptyMap
    /\ user' = <<>>
    /\ UNCHANGED breadcrumbs
    /\ UNCHANGED unitVars
    /\ UNCHANGED <<enabled, isCapturing, hasBeforeSend, calls, stack>>

\* clearScope(): scope.clear() and breadcrumbs.clear()
ClearScope ==
    /\ context' = EmptyMap
    /\ tags' = EmptyMap
    /\ user' = <<>>
    /\ breadcrumbs' = <<>>
    /\ UNCHANGED unitVars
    /\ UNCHANGED <<enabled, isCapturing, hasBeforeSend, calls, stack>>

(***************************************************************************)
(* The inputs of the modelled behaviours.                                  *)
(***************************************************************************)
ErrorObject ==
    [t |-> "Error", name |-> <<"E","r","r","o","r">>,
     message |-> <<"b","o","o","m">>, stack |-> <<"E","r","r","o","r",":">>]

Hostile == [t |-> "hostile"]

\* an event with the context changed, as a hook may return it
Modified(event) == [event EXCEPT !.context = <<Put(@[1], "modified", Bool(TRUE))>>]

\* an event with a level that validation rejects
BadLevel(event) == [event EXCEPT !.level = "fatal"]

Crumb == "message" :> Str(<<"c">>)

(***************************************************************************)
(* Spec: the pipeline under concurrent and nested invocations, on a few    *)
(* inputs: an Error and a value whose serialization throws, hooks that     *)
(* drop, pass, spoil or throw, and three answers of the transport.         *)
(***************************************************************************)
Next ==
    \/ /\ Len(calls) < MaxCalls
       /\ \E error \in {ErrorObject, Hostile} : CaptureError(error, EmptyMap)
    \/ /\ Len(calls) < MaxCalls
       /\ CaptureMessage(<<"h","i">>, "info", EmptyMap)
    \/ /\ stack # <<>>
       /\ \E ret \in {Null, Bool(FALSE), calls[Top].event, BadLevel(calls[Top].event)} :
            BeforeSendReturns(ret)
    \/ BeforeSendThrows
    \/ \E c \in DOMAIN calls, answer \in {"202", "500", "invalid"} :
            TransportSettles(c, answer)
    \/ \E b \in BOOLEAN : SetEnabled(b)

Spec == Init /\ [][Next]_vars

(***************************************************************************)
(* SpecLive: the same pipeline with the progress the runtime gives: a      *)
(* synchronous hook runs to its return or its throw, and a request is      *)
(* answered or aborted by the timer that makeRequest arms.                 *)
(***************************************************************************)
NextLive ==
    \/ /\ Len(calls) < MaxLiveCalls
       /\ \E error \in {ErrorObject, Hostile} : CaptureError(error, EmptyMap)
    \/ /\ Len(calls) < MaxLiveCalls
       /\ CaptureMessage(<<"h","i">>, "info", EmptyMap)
    \/ /\ stack # <<>>
       /\ \E ret \in {Null, Bool(FALSE), calls[Top].event, BadLevel(calls[Top].event)} :
            BeforeSendReturns(ret)
    \/ BeforeSendThrows
    \/ \E c \in DOMAIN calls, answer \in {"202", "500", "invalid"} :
            TransportSettles(c, answer)
    \/ \E b \in BOOLEAN : SetEnabled(b)

\* the running hook ends
HookCompletes == BeforeSendThrows \/ \E ret \in {Null} : BeforeSendReturns(ret)

\* the request of call c is answered or aborted
RequestEnds(c) == \E answer \in {"202", "500", "invalid"} : TransportSettles(c, answer)

SpecLive ==
    /\ Init
    /\ [][NextLive]_vars
    /\ WF_vars(HookCompletes)
    /\ \A c \in 1..MaxLiveCalls : WF_vars(RequestEnds(c))

(***************************************************************************)
(* SpecInputs: a client used sequentially (each capture is awaited before  *)
(* the next one, and its settled result is then dropped), with every       *)
(* input, every hook behaviour, every answer and every scope operation.    *)
(***************************************************************************)
ErrorInputs == {ErrorObject, Str(<<"x">>), Null, Hostile}

\* local contexts: none, a custom key, the three keys merge forbids, allowed ones
LocalContexts ==
    {EmptyMap,
     "order_id" :> Str(<<"7">>),
     "exception_class" :> Str(<<"X">>),
     "frames" :> Arr(<<>>),
     "breadcrumbs" :> Arr(<<>>),
     "user" :> Obj("id" :> Str(<<"9">>)),
     "request" :> Obj(EmptyMap)}

\* the messages and levels a caller passes to captureMessage
MessageInputs == {<<"h","i">>, <<>>}

LevelInputs == {"info", "fatal"}

\* what a beforeSend hook may return for an event
HookReturns(event) == {Null, Bool(FALSE), event, Modified(event), BadLevel(event)}

\* the caller drops the result of a settled capture
Forget ==
    /\ calls # <<>>
    /\ \A c \in DOMAIN calls : calls[c].pc = "done"
    /\ calls' = <<>>
    /\ UNCHANGED unitVars
    /\ UNCHANGED <<enabled, isCapturing, hasBeforeSend, context, tags, user,
                   breadcrumbs, stack>>

NextInputs ==
    \/ /\ calls = <<>>
       /\ \E error \in ErrorInputs, lc \in LocalContexts : CaptureError(error, lc)
    \/ /\ calls = <<>>
       /\ \E m \in MessageInputs, l \in LevelInputs, lc \in LocalContexts :
            CaptureMessage(m, l, lc)
    \/ /\ stack # <<>>
       /\ \E ret \in HookReturns(calls[Top].event) : BeforeSendReturns(ret)
    \/ BeforeSendThrows
    \/ \E c \in DOMAIN calls, answer \in Answers \cup {"invalid"} :
            TransportSettles(c, answer)
    \/ Forget
    \/ \E b \in BOOLEAN : SetEnabled(b)
    \/ AddBreadcrumb(Crumb)
    \/ \E key \in {"order_id", "frames"} : SetContext(key, Str(<<"g">>))
    \/ SetTag("region", Str(<<"u","s">>))
    \/ SetUser("id" :> Str(<<"1">>))
    \/ ClearScope

SpecInputs == Init /\ [][NextInputs]_vars

(***************************************************************************)
(* SpecFlow: an enabled client without a beforeSend hook, keeping one      *)
(* breadcrumb, whose program sets and clears the scope between captures    *)
(* and does not await them: the events of the captures in flight are side  *)
(* by side in the state.                                                   *)
(***************************************************************************)
InitFlow ==
    /\ enabled = TRUE
    /\ isCapturing = FALSE
    /\ hasBeforeSend = FALSE
    /\ context = EmptyMap
    /\ tags = EmptyMap
    /\ user = <<>>
    /\ breadcrumbs = <<>>
    /\ calls = <<>>
    /\ stack = <<>>
    /\ maxBreadcrumbs = 1
    /\ added = <<>>
    /\ last = NoCall
    /\ node = NoNode

\* the local context of the errors captured in SpecFlow: a key of its own
FlowLocal == "tier" :> Str(<<"1">>)

NextFlow ==
    \/ /\ Len(calls) < MaxFlowCalls
       /\ CaptureError(ErrorObject, FlowLocal)
    \/ /\ Len(calls) < MaxFlowCalls
       /\ CaptureMessage(<<"h","i">>, "info", EmptyMap)
    \/ \E c \in DOMAIN calls : TransportSettles(c, "202")
    \/ AddBreadcrumb(Crumb)
    \/ SetContext("order_id", Str(<<"g">>))
    \/ SetTag("region", Str(<<"u","s">>))
    \/ SetUser("id" :> Str(<<"1">>))
    \/ ClearScope

SpecFlow == InitFlow /\ [][NextFlow]_vars

(***************************************************************************)
(* The constructor of KeplogClient.  A configuration field is optional:    *)
(* <<>> when the caller leaves it out.                                     *)
(***************************************************************************)
DefaultTimeout == 5000
MaxTimeout == 10000
DefaultMaxBreadcrumbs == 100

\* configured || fallback
OrDefault(configured, fallback) ==
    IF configured = <<>> \/ ~Truthy(configured[1]) THEN fallback ELSE configured[1]

\* Math.min(a, b) for a number b
MathMin(a, b) ==
    CASE a.t = "Infinity" -> b
      [] a.t = "number" -> IF a.n < b.n THEN a ELSE b

\* faulty variant: the configured timeout is not capped
TransportTimeoutUncapped(configured) == OrDefault(configured, Num(DefaultTimeout))

\* the timeout given to the transport: Math.min(config.timeout || 5000, 10000)
TransportTimeout(configured) ==
    MathMin(OrDefault(configured, Num(DefaultTimeout)), Num(MaxTimeout))

\* new KeplogClient(config): throws without an ingest key, and otherwise
\* builds a client with a fresh scope, buffer and transport
Construct(config) ==
    IF config.ingestKey = <<>>
    THEN /\ last' = [op |-> "constructor", config |-> config, threw |-> TRUE,
                     timeout |-> Null]
         /\ UNCHANGED <<enabled, isCapturing, hasBeforeSend, context, tags, user,
                        breadcrumbs, calls, stack, maxBreadcrumbs, added, node>>
    ELSE /\ enabled' = IF config.enabled # <<>> THEN config.enabled[1] ELSE TRUE
         /\ isCapturing' = FALSE
         /\ hasBeforeSend' = config.beforeSend
         /\ context' = EmptyMap
         /\ tags' = EmptyMap
         /\ user' = <<>>
         /\ breadcrumbs' = <<>>
         /\ calls' = <<>>
         /\ stack' = <<>>
         /\ maxBreadcrumbs' =
                OrDefault(config.maxBreadcrumbs, Num(DefaultMaxBreadcrumbs)).n
         /\ added' = <<>>
         /\ node' = Install(NodeIntegration(TRUE, node.sdkPath))
         /\ last' = [op |-> "constructor", config |-> config, threw |-> FALSE,
                     timeout |-> TransportTimeout(config.timeout)]

\* the values a caller may configure as timeout
TimeoutInputs ==
    {<<>>, <<NaN>>, <<Infinity>>, <<Num(1)>>, <<Num(9999)>>, <<Num(10001)>>}
    \cup {<<Num(k * 2500)>> : k \in -1..MaxTimeoutSteps}

Configs ==
    [ingestKey : {<<>>, <<"k">>},
     timeout : TimeoutInputs,
     enabled : {<<>>, <<TRUE>>, <<FALSE>>},
     maxBreadcrumbs : {<<>>, <<Num(0)>>, <<Num(2)>>},
     beforeSend : BOOLEAN]

NextConfig == \E config \in Configs : Construct(config)

SpecConfig == Init /\ [][NextConfig]_vars

(***************************************************************************)
(* SpecCrumbs: a BreadcrumbManager used directly, with any maximum from 1  *)
(* up and breadcrumbs that differ, with and without a timestamp.           *)
(***************************************************************************)
InitCrumbs ==
    /\ enabled = TRUE
    /\ isCapturing = FALSE
    /\ hasBeforeSend = FALSE
    /\ context = EmptyMap
    /\ tags = EmptyMap
    /\ user = <<>>
    /\ breadcrumbs = <<>>
    /\ calls = <<>>
    /\ stack = <<>>
    /\ maxBreadcrumbs \in 1..(CrumbCap + 1)
    /\ added = <<>>
    /\ last = NoCall
    /\ node = NoNode

\* BreadcrumbManager.add(breadcrumb)
BufferAdd(breadcrumb) ==
    /\ breadcrumbs' = BreadcrumbsAdd(breadcrumbs, breadcrumb, maxBreadcrumbs)
    /\ added' = Append(added, Obj(Stamp(breadcrumb)))
    /\ last' = [op |-> "add"]
    /\ UNCHANGED <<enabled, isCapturing, hasBeforeSend, context, tags, user,
                   calls, stack, maxBreadcrumbs, node>>

\* BreadcrumbManager.clear()
BufferClear ==
    /\ breadcrumbs' = <<>>
    /\ added' = <<>>
    /\ last' = [op |-> "clear"]
    /\ UNCHANGED <<enabled, isCapturing, hasBeforeSend, context, tags, user,
                   calls, stack, maxBreadcrumbs, node>>

CrumbInputs ==
    {"message" :> Str(<<m>>) : m \in {"a", "b", "c"}}
    \cup {("message" :> Str(<<"d">>)) @@ ("timestamp" :> Num(t)) : t \in {0, 5}}

NextCrumbs ==
    \/ /\ Len(added) < MaxAdds
       /\ \E breadcrumb \in CrumbInputs : BufferAdd(breadcrumb)
    \/ BufferClear

SpecCrumbs == InitCrumbs /\ [][NextCrumbs]_vars

(***************************************************************************)
(* SpecScope: a Scope used directly.  Every call records in last what it   *)
(* was given and whether it threw; merge records the object it returned.   *)
(***************************************************************************)
\* faulty variant: the key is written before the reserved keys are tested
ScopeSetContextWritesFirst(key, value) ==
    /\ context' = Put(context, key, value)
    /\ last' = [op |-> "setContext", key |-> key, value |-> value,
                threw |-> SetContextThrows(key)]
    /\ UNCHANGED <<enabled, isCapturing, hasBeforeSend, tags, user, breadcrumbs,
                   calls, stack, maxBreadcrumbs, added, node>>

\* Scope.setContext(key, value)
ScopeSetContext(key, value) ==
    /\ context' = IF SetContextThrows(key) THEN context ELSE Put(context, key, value)
    /\ last' = [op |-> "setContext", key |-> key, value |-> value,
                threw |-> SetContextThrows(key)]
    /\ UNCHANGED <<enabled, isCapturing, hasBeforeSend, tags, user, breadcrumbs,
                   calls, stack, maxBreadcrumbs, added, node>>

\* Scope.setTag(key, value)
ScopeSetTag(key, value) ==
    /\ tags' = Put(tags, key, value)
    /\ last' = [op |-> "setTag"]
    /\ UNCHANGED <<enabled, isCapturing, hasBeforeSend, context, user, breadcrumbs,
                   calls, stack, maxBreadcrumbs, added, node>>

\* Scope.setTags(newTags)
ScopeSetTags(newTags) ==
    /\ tags' = Spread(tags, newTags)
    /\ last' = [op |-> "setTags"]
    /\ UNCHANGED <<enabled, isCapturing, hasBeforeSend, context, user, breadcrumbs,
                   calls, stack, maxBreadcrumbs, added, node>>

\* Scope.setUser(u)
ScopeSetUser(u) ==
    /\ user' = <<u>>
    /\ last' = [op |-> "setUser"]
    /\ UNCHANGED <<enabled, isCapturing, hasBeforeSend, context, tags, breadcrumbs,
                   calls, stack, maxBreadcrumbs, added, node>>

\* Scope.clear()
ScopeClear ==
    /\ context' = EmptyMap
    /\ tags' = EmptyMap
    /\ user' = <<>>
    /\ last' = [op |-> "clear"]
    /\ UNCHANGED <<enabled, isCapturing, hasBeforeSend, breadcrumbs, calls, stack,
                   maxBreadcrumbs, added, node>>

\* Scope.merge(localContext): throws or returns a new object; the scope stays
ScopeMerge(localContext) ==
    /\ last' = [op |-> "merge", localContext |-> localContext,
                threw |-> MergeThrows(localContext),
                merged |-> IF MergeThrows(localContext)
                           THEN EmptyMap
                           ELSE Merge(context, tags, user, localContext)]
    /\ UNCHANGED <<enabled, isCapturing, hasBeforeSend, context, tags, user,
                   breadcrumbs, calls, stack, maxBreadcrumbs, added, node>>

\* keys given to setContext: the reserved ones, a custom one, and the two
\* names that merge writes itself
ContextKeys == RESERVED_KEYS \cup {"order_id", "tags", "user"}

ContextValues == {Str(<<"g">>), Obj("id" :> Str(<<"3">>))}

TagValues == {Str(<<"u", "s">>), Str(<<"e", "u">>)}

UserInputs ==
    {"id" :> Str(<<"1">>),
     ("id" :> Str(<<"1">>)) @@ ("email" :> Str(<<"a">>))}

\* local contexts given to merge
MergeInputs ==
    {EmptyMap,
     "order_id" :> Str(<<"v">>),
     "exception_class" :> Str(<<"X">>),
     "frames" :> Arr(<<>>),
     "breadcrumbs" :> Arr(<<>>),
     "queries" :> Arr(<<>>),
     "request" :> Obj(EmptyMap),
     "tags" :> Obj("region" :> Str(<<"e", "u">>)),
     "tags" :> Obj(EmptyMap),
     "tags" :> Str(<<"v">>),
     "tags" :> Null,
     "user" :> Obj("id" :> Str(<<"9">>)),
     "user" :> Str(<<"v">>),
     "user" :> Null,
     ("order_id" :> Str(<<"v">>)) @@ ("frames" :> Arr(<<>>))}

NextScope ==
    \/ \E key \in ContextKeys, value \in ContextValues : ScopeSetContext(key, value)
    \/ \E key \in {"region", "tier"}, value \in TagValues : ScopeSetTag(key, value)
    \/ \E newTags \in {EmptyMap, "region" :> Str(<<"e", "u">>)} : ScopeSetTags(newTags)
    \/ \E u \in UserInputs : ScopeSetUser(u)
    \/ ScopeClear
    \/ \E localContext \in MergeInputs : ScopeMerge(localContext)

\* new Scope(): no context, no tags, no user
InitScope ==
    /\ enabled = TRUE
    /\ isCapturing = FALSE
    /\ hasBeforeSend = FALSE
    /\ context = EmptyMap
    /\ tags = EmptyMap
    /\ user = <<>>
    /\ breadcrumbs = <<>>
    /\ calls = <<>>
    /\ stack = <<>>
    /\ maxBreadcrumbs = CrumbCap
    /\ added = <<>>
    /\ last = NoCall
    /\ node = NoNode

SpecScope == InitScope /\ [][NextScope]_vars

(***************************************************************************)
(* SpecSerializer: ErrorSerializer called directly.  The scope and the     *)
(* breadcrumbs it is given are any that the setters can have built; each   *)
(* call is recorded in last with its arguments and the event it returned.  *)
(***************************************************************************)
InitSerializer ==
    /\ enabled = TRUE
    /\ isCapturing = FALSE
    /\ hasBeforeSend = FALSE
    /\ context \in {EmptyMap, "order_id" :> Str(<<"g">>)}
    /\ tags \in {EmptyMap, "region" :> Str(<<"u","s">>)}
    /\ user \in {<<>>, <<"id" :> Str(<<"1">>)>>}
    /\ breadcrumbs \in {<<>>, <<Stamp(Crumb)>>}
    /\ calls = <<>>
    /\ stack = <<>>
    /\ maxBreadcrumbs = CrumbCap
    /\ added = <<>>
    /\ last = NoCall
    /\ node = NoNode

\* ErrorSerializer.serialize(error, level, scope, breadcrumbs, localContext)
SerializerSerialize(error, level, localContext) ==
    /\ last' = [op |-> "serialize", error |-> error, localContext |-> localContext,
                threw |-> SerializeThrows(error, localContext),
                event |-> IF SerializeThrows(error, localContext)
                          THEN Null
                          ELSE Serialize(error, level, context, tags, user,
                                         breadcrumbs, localContext)]
    /\ UNCHANGED <<enabled, isCapturing, hasBeforeSend, context, tags, user,
                   breadcrumbs, calls, stack, maxBreadcrumbs, added, node>>

\* ErrorSerializer.serializeMessage(message, level, scope, breadcrumbs, localContext)
SerializerSerializeMessage(message, level, localContext) ==
    /\ last' = [op |-> "serializeMessage", error |-> Str(message),
                localContext |-> localContext,
                threw |-> SerializeMessageThrows(localContext),
                event |-> IF SerializeMessageThrows(localContext)
                          THEN Null
                          ELSE SerializeMessage(message, level, context, tags, user,
                                                breadcrumbs, localContext)]
    /\ UNCHANGED <<enabled, isCapturing, hasBeforeSend, context, tags, user,
                   breadcrumbs, calls, stack, maxBreadcrumbs, added, node>>

\* local contexts: none; custom keys, one of them set globally too; the
\* keys allowed in a capture, with queries given, null and zero; tags; a
\* key that merge rejects
SerializerLocals ==
    {EmptyMap,
     "order_id" :> Str(<<"7">>),
     "tier" :> Num(2),
     "user" :> Obj("email" :> Str(<<"e">>)),
     "request" :> Obj(EmptyMap),
     "queries" :> Arr(<<Obj(EmptyMap)>>),
     "queries" :> Null,
     "queries" :> Num(0),
     "tags" :> Obj("tier" :> Str(<<"1">>)),
     ("user" :> Obj("id" :> Str(<<"9">>))) @@ ("request" :> Obj(EmptyMap))
        @@ ("queries" :> Arr(<<>>)) @@ ("order_id" :> Num(5)),
     "frames" :> Arr(<<>>)}

NextSerializer ==
    \/ \E error \in ErrorInputs, level \in {"error", "critical"},
          localContext \in SerializerLocals :
            SerializerSerialize(error, level, localContext)
    \/ \E message \in {<<"h","i">>, <<"x">>}, localContext \in SerializerLocals :
            SerializerSerializeMessage(message, "info", localContext)

SpecSerializer == InitSerializer /\ [][NextSerializer]_vars

(***************************************************************************)
(* SpecTransport: Transport.send called directly with an event that the    *)
(* caller built: last holds the event, then the event as posted (or the    *)
(* fact that validation threw), then the answer and the result of send.    *)
(***************************************************************************)
\* a text of n characters
TextOf(n) == [i \in 1..n |-> "a"]

\* the lengths of the messages sent: none, short, at the limit and beyond
MessageLengths ==
    {0, 1, MaxMessageLength, MaxMessageLength + 1, MaxMessageLength + 1000}

\* the lengths of the long stack traces sent: at the limit and beyond
StackLengths == {MaxStackLength, MaxStackLength + 1, MaxStackLength + 10000}

\* a context or extra_context whose only entry is a string of n characters
DataOf(n) == "data" :> Str(TextOf(n))

\* JSON.stringify({data: ''}).length
DataOverhead == JsonLen(Obj(DataOf(0)))

\* the lengths of data for which the mapping serializes to the limit, to
\* one more and to well beyond
DataLengths ==
    {MaxContextSize - DataOverhead, MaxContextSize - DataOverhead + 1,
     MaxContextSize + 4000}

\* the events given to send: every message length and level with and
\* without small mappings and a short stack; long stacks; large mappings
TransportEvents ==
    {[t |-> "event", message |-> TextOf(n), level |-> l,
      stack_trace |-> IF small THEN <<>> ELSE <<ErrorObject.stack>>,
      context |-> IF small THEN <<>> ELSE <<DataOf(1)>>,
      extra_context |-> IF small THEN <<>> ELSE <<DataOf(1)>>] :
        n \in MessageLengths, l \in ValidLevels \cup {"fatal"}, small \in BOOLEAN}
    \cup
    {[t |-> "event", message |-> TextOf(4), level |-> "error",
      stack_trace |-> <<TextOf(n)>>, context |-> <<>>, extra_context |-> <<>>] :
        n \in StackLengths}
    \cup
    {[t |-> "event", message |-> TextOf(4), level |-> "error",
      stack_trace |-> <<>>, context |-> <<DataOf(n)>>,
      extra_context |-> IF x = 0 THEN <<>> ELSE <<DataOf(x)>>] :
        n \in DataLengths, x \in {0} \cup DataLengths}

InitTransport ==
    /\ enabled = TRUE
    /\ isCapturing = FALSE
    /\ hasBeforeSend = FALSE
    /\ context = EmptyMap
    /\ tags = EmptyMap
    /\ user = <<>>
    /\ breadcrumbs = <<>>
    /\ calls = <<>>
    /\ stack = <<>>
    /\ maxBreadcrumbs = CrumbCap
    /\ added = <<>>
    /\ \E event \in TransportEvents : last = [op |-> "event", event |-> event]
    /\ node = NoNode

\* send(event) up to its await: validateEvent, then the request unless
\* validation threw, in which case send returns null
TransportSendEvent ==
    /\ last.op = "event"
    /\ last' = IF ValidateThrows(last.event)
               THEN [op |-> "send", event |-> last.event, threw |-> TRUE,
                     posted |-> Null, answer |-> "invalid",
                     result |-> SendResult("invalid")]
               ELSE [op |-> "send", event |-> last.event, threw |-> FALSE,
                     posted |-> ValidateEvent(last.event), answer |-> "none",
                     result |-> "pending"]
    /\ UNCHANGED <<enabled, isCapturing, hasBeforeSend, context, tags, user,
                   breadcrumbs, calls, stack, maxBreadcrumbs, added, node>>

\* the request is answered, fails or is aborted, and send returns
TransportAnswered(answer) ==
    /\ last.op = "send"
    /\ last.result = "pending"
    /\ last' = [last EXCEPT !.answer = answer, !.result = SendResult(answer)]
    /\ UNCHANGED <<enabled, isCapturing, hasBeforeSend, context, tags, user,
                   breadcrumbs, calls, stack, maxBreadcrumbs, added, node>>

\* the answers to a request sent directly: those of the pipeline, a 400
\* whose body is not JSON, and two more statuses
TransportAnswers == Answers \cup {"400-unreadable-body", "200", "503"}

NextTransport ==
    \/ TransportSendEvent
    \/ \E answer \in TransportAnswers : TransportAnswered(answer)

SpecTransport == InitTransport /\ [][NextTransport]_vars

(***************************************************************************)
(* The automatic handlers: NodeIntegration in a process that emits         *)
(* 'uncaughtException' and 'unhandledRejection'.  The process calls the    *)
(* listeners of a signal one after the other, each up to its first await;  *)
(* node.emitting holds the listeners that the signal has still to reach.   *)
(* A run is one invocation of a handler: where it stands (pc) and the      *)
(* captureError call it made (0 when it made none).                        *)
(***************************************************************************)
\* the signals of a behaviour, the install() calls, the captures that the
\* program makes itself
MaxSignals == 1
MaxInstalls == 2
MaxOwnCalls == 1

\* String.prototype.includes
Includes(text, part) ==
    \E i \in 0..(Len(text) - Len(part)) : SubSeq(text, i + 1, i + Len(part)) = part

\* Error.prototype.toString
ErrorToString(error) ==
    IF error.message = <<>> THEN error.name ELSE error.name \o <<":", " ">> \o error.message

\* the texts that isKeplogError looks for
KeplogPackage == <<"@","k","e","p","l","o","g","/","n","o","d","e">>
KeplogName == <<"K","e","p","l","o","g">>
KeplogTag == <<"[","K","e","p","l","o","g","]">>
KeplogDir == <<"/","k","e","p","l","o","g","/">>

\* isKeplogError(error)
IsKeplogError(error) ==
    IF ~Truthy(error)
    THEN FALSE
    ELSE LET errorString == IF error.t = "Error" THEN ErrorToString(error) ELSE error.s
             errStack == IF error.t = "Error" THEN error.stack ELSE <<>>
         IN  \/ Includes(errorString, KeplogPackage)
             \/ Includes(errorString, KeplogName)
             \/ Includes(errorString, KeplogTag)
             \/ Includes(errStack, KeplogPackage)
             \/ Includes(errStack, KeplogDir)

\* String(reason)
StringOfReason(reason) == IF reason.t = "Error" THEN ErrorToString(reason) ELSE reason.s

\* reason instanceof Error ? reason : new Error(String(reason)); the stack of
\* the new Error starts at the handler, in the files of the SDK
ReasonToError(reason, sdkPath) ==
    IF reason.t = "Error"
    THEN reason
    ELSE [t |-> "Error", name |-> <<"E","r","r","o","r">>, message |-> StringOfReason(reason),
          stack |-> <<"E","r","r","o","r">> \o <<":", " ">> \o StringOfReason(reason)
                        \o <<" ","a","t"," ">> \o sdkPath]

\* the context that the handlers pass to captureError
UncaughtContext ==
    ("uncaught" :> Bool(TRUE)) @@ ("handler" :> Str(<<"u","n","c","a","u","g","h","t","E","x","c","e","p","t","i","o","n">>))

RejectionContext(reason) ==
    ("unhandled_rejection" :> Bool(TRUE)) @@ ("handler" :> Str(<<"u","n","h","a","n","d","l","e","d","R","e","j","e","c","t","i","o","n">>))
        @@ ("reason" :> Str(StringOfReason(reason)))

\* what the application throws and rejects with: an error of its own,
\* errors raised in the code of the SDK installed from npm and bundled, a
\* string
AppError == ErrorObject
NpmStackError ==
    [t |-> "Error", name |-> <<"E","r","r","o","r">>, message |-> <<"x">>,
     stack |-> <<"E","r","r","o","r",":"," ","x">> \o <<" ","a","t"," ">> \o NpmPath]
BundledStackError ==
    [t |-> "Error", name |-> <<"E","r","r","o","r">>, message |-> <<"x">>,
     stack |-> <<"E","r","r","o","r",":"," ","x">> \o <<" ","a","t"," ","K","e","p","l","o","g","C","l","i","e","n","t"," ">> \o BundlePath]
ExceptionInputs == {AppError, NpmStackError, BundledStackError}
ReasonInputs == {AppError, Str(<<"o","o","p","s">>)}

\* the variables that install, uninstall and the process leave alone
clientVars ==
    <<enabled, isCapturing, hasBeforeSend, context, tags, user, breadcrumbs,
      calls, stack, maxBreadcrumbs, added, last>>

\* run r awaits a captureError call that has resolved: its handler goes on
\* in a microtask, before the process turns to anything else
Resumable(r) == node.runs[r].pc = "await" /\ calls[node.runs[r].call].pc = "done"

\* the process runs, is not in the middle of calling listeners and has no
\* microtask to run
Idle ==
    /\ ~node.exited
    /\ node.emitting = <<>>
    /\ stack = <<>>
    /\ \A r \in DOMAIN node.runs : ~Resumable(r)

NodeInstall ==
    /\ Idle
    /\ node.bound < MaxInstalls
    /\ node' = Install(node)
    /\ UNCHANGED clientVars

\* uninstall(), which close() calls too
NodeUninstall ==
    /\ Idle
    /\ node' = Uninstall(node)
    /\ UNCHANGED clientVars

\* the process emits 'uncaughtException' with error: its listeners will run
EmitUncaughtException(error) ==
    /\ Idle
    /\ Len(node.signals) < MaxSignals
    /\ node.onUncaughtException # <<>>
    /\ node' = [node EXCEPT
                   !.signals = Append(@, [kind |-> "uncaughtException", value |-> error,
                                          installed |-> node.uncaughtExceptionHandler # 0]),
                   !.emitting = node.onUncaughtException]
    /\ UNCHANGED clientVars

\* the process emits 'unhandledRejection' with reason
EmitUnhandledRejection(reason) ==
    /\ Idle
    /\ Len(node.signals) < MaxSignals
    /\ node.onUnhandledRejection # <<>>
    /\ node' = [node EXCEPT
                   !.signals = Append(@, [kind |-> "unhandledRejection", value |-> reason,
                                          installed |-> node.unhandledRejectionHandler # 0]),
                   !.emitting = node.onUnhandledRejection]
    /\ UNCHANGED clientVars

\* the run of a listener that begins
NewRun(pc, call) ==
    [kind |-> node.signals[Len(node.signals)].kind, signal |-> Len(node.signals),
     listener |-> Head(node.emitting), pc |-> pc, call |-> call]

\* handleUncaughtException and handleUnhandledRejection up to their await:
\* the next listener of the signal is called; it returns when the error is
\* taken for one of the SDK, and calls captureError otherwise
HandlerBegins ==
    /\ ~node.exited
    /\ node.emitting # <<>>
    /\ LET signal == node.signals[Len(node.signals)]
           error == IF signal.kind = "unhandledRejection"
                    THEN ReasonToError(signal.value, node.sdkPath)
                    ELSE signal.value
           localContext == IF signal.kind = "unhandledRejection"
                           THEN RejectionContext(signal.value)
                           ELSE UncaughtContext
       IN  IF IsKeplogError(error)
           THEN /\ node' = [node EXCEPT !.emitting = Tail(@),
                                        !.runs = Append(@, NewRun("skipped", 0))]
                /\ UNCHANGED <<calls, isCapturing, stack>>
           ELSE LET step == CaptureErrorStep(error, localContext)
                IN  /\ calls' = Append(calls, step.call)
                    /\ isCapturing' = step.flag
                    /\ stack' = IF step.call.pc = "hook"
                                THEN Append(stack, Len(calls) + 1)
                                ELSE stack
                    /\ node' = [node EXCEPT
                                   !.emitting = Tail(@),
                                   !.runs = Append(@, NewRun("await", Len(calls) + 1))]
    /\ UNCHANGED <<enabled, hasBeforeSend, context, tags, user, breadcrumbs,
                   maxBreadcrumbs, added, last>>

\* faulty variant: the rejection handler arms the exit timer as well
HandlerResumesExitsOnRejection(r) ==
    /\ ~node.exited
    /\ node.emitting = <<>>
    /\ r \in DOMAIN node.runs
    /\ Resumable(r)
    /\ node' = [node EXCEPT !.runs[r].pc = IF node.exitOnUncaught THEN "timer" ELSE "done"]
    /\ UNCHANGED clientVars

\* the awaited captureError of run r has resolved and the handler goes on:
\* the uncaught-exception handler arms the exit timer when exitOnUncaught is
\* set (and exits at once from its catch block had the call thrown)
HandlerResumes(r) ==
    /\ ~node.exited
    /\ node.emitting = <<>>
    /\ r \in DOMAIN node.runs
    /\ Resumable(r)
    /\ LET exits == node.runs[r].kind = "uncaughtException" /\ node.exitOnUncaught
       IN  node' = IF calls[node.runs[r].call].result = "threw"
                   THEN [node EXCEPT !.runs[r].pc = IF exits THEN "exited" ELSE "done",
                                     !.exited = exits]
                   ELSE [node EXCEPT !.runs[r].pc = IF exits THEN "timer" ELSE "done"]
    /\ UNCHANGED clientVars

\* the timer of run r fires after the grace delay: process.exit(1)
ExitTimerFires(r) ==
    /\ Idle
    /\ r \in DOMAIN node.runs
    /\ node.runs[r].pc = "timer"
    /\ node' = [node EXCEPT !.runs[r].pc = "exited", !.exited = TRUE]
    /\ UNCHANGED clientVars

\* the calls that the handlers made
HandlerCalls == {node.runs[r].call : r \in DOMAIN node.runs} \ {0}

InitNode ==
    /\ enabled = TRUE
    /\ isCapturing = FALSE
    /\ hasBeforeSend = FALSE
    /\ context = EmptyMap
    /\ tags = EmptyMap
    /\ user = <<>>
    /\ breadcrumbs = <<>>
    /\ calls = <<>>
    /\ stack = <<>>
    /\ maxBreadcrumbs = CrumbCap
    /\ added = <<>>
    /\ last = NoCall
    /\ \E exitOnUncaught \in BOOLEAN, sdkPath \in {NpmPath, BundlePath} :
            node = NodeIntegration(exitOnUncaught, sdkPath)

NextNode ==
    \/ NodeInstall
    \/ NodeUninstall
    \/ \E error \in ExceptionInputs : EmitUncaughtException(error)
    \/ \E reason \in ReasonInputs : EmitUnhandledRejection(reason)
    \/ HandlerBegins
    \/ \E r \in DOMAIN node.runs : HandlerResumes(r)
    \/ \E r \in DOMAIN node.runs : ExitTimerFires(r)
    \/ /\ Idle
       /\ Len(calls) - Cardinality(HandlerCalls) < MaxOwnCalls
       /\ CaptureError(AppError, EmptyMap)
    \/ /\ Idle
       /\ \E c \in DOMAIN calls : TransportSettles(c, "202")

SpecNode == InitNode /\ [][NextNode]_vars

(***************************************************************************)
(* The claims.                                                             *)
(***************************************************************************)
Ids == DOMAIN calls

\* a captureError invocation past the recursion guard that has not returned
Capturing(c) == calls[c].kind = "error" /\ calls[c].pc # "done"

\* the invocations whose hook was running when c was invoked
Enclosing(c) == {calls[c].entryStack[i] : i \in DOMAIN calls[c].entryStack}

\* the invocation did nothing but return null
DidNothing(call) ==
    /\ call.pc = "done" /\ call.result = "null"
    /\ call.nSerialize = 0 /\ call.nHook = 0 /\ call.nSend = 0 /\ call.nFetch = 0

\* a step that invokes captureError or captureMessage, and the call it adds
CaptureStep == Len(calls') = Len(calls) + 1
NewestCall == calls'[Len(calls')]

\* C1: a captureError invoked from inside the beforeSend hook of a
\* captureError in progress returns null without serializing, without
\* calling the hook and without calling the transport (the recursion guard
\* rejects it, or the disabled test when the hook disabled the client), and
\* the outer call's hook is invoked exactly once.
C1_NestedCaptureRejected ==
    \A c \in Ids :
        (calls[c].kind = "error" /\ \E d \in Enclosing(c) : calls[d].kind = "error")
        => /\ DidNothing(calls[c])
           /\ calls[c].exit \in {"guard", "disabled"}
           /\ \A d \in Enclosing(c) : calls[d].kind = "error" => calls[d].nHook = 1

C1_Witness ==
    \E c, d \in Ids :
        /\ d \in Enclosing(c)
        /\ calls[d].kind = "error" /\ calls[d].pc = "done" /\ calls[d].nHook = 1
        /\ calls[c].kind = "error" /\ calls[c].exit = "guard"

\* C2: at most one captureError invocation is past the recursion guard, the
\* flag is set exactly while there is one, and a call the guard rejected
\* has returned null and is never serialized, sent or posted.
C2_SingleFlight ==
    /\ Cardinality({c \in Ids : Capturing(c)}) <= 1
    /\ isCapturing <=> \E c \in Ids : Capturing(c)
    /\ \A c \in Ids : calls[c].exit = "guard" => DidNothing(calls[c])

C2_Witness ==
    \E c, d \in Ids :
        /\ c < d
        /\ Capturing(c) /\ calls[c].pc = "await"
        /\ calls[d].kind = "error" /\ calls[d].exit = "guard"
        /\ calls[d].entryStack = <<>>

\* C3: when no captureError is in progress the guard is released, whatever
\* way the last one ended, and a captureError then invoked on an enabled
\* client is not rejected by the guard: it is serialized.
C3_GuardReleased ==
    /\ []((\A c \in Ids : ~Capturing(c)) => ~isCapturing)
    /\ [][(/\ CaptureStep
           /\ NewestCall.kind = "error"
           /\ enabled
           /\ \A c \in Ids : ~Capturing(c))
          => (NewestCall.exit # "guard" /\ NewestCall.nSerialize = 1)]_vars

C3_Witness ==
    \E c, d \in Ids :
        /\ c < d
        /\ calls[c].kind = "error" /\ calls[c].exit = "hookThrew"
        /\ calls[d].kind = "error" /\ calls[d].nSerialize = 1
        /\ calls[d].entryStack = <<>>

\* C4: no captureError or captureMessage invocation throws or rejects: a
\* returned call resolved to null or to an event id, for every input, local
\* context, scope, hook behaviour and answer of the transport.
C4_CapturesNeverReject ==
    \A c \in Ids :
        /\ calls[c].result \in {"pending", "null", "evt"}
        /\ calls[c].pc = "done" <=> calls[c].result \in {"null", "evt"}

C4_Witness ==
    \E c \in Ids :
        /\ calls[c].kind = "message"
        /\ calls[c].exit = "hookThrew"
        /\ calls[c].result = "null"

\* C5: captureError with a local context holding exception_class, frames or
\* breadcrumbs, on an enabled client with no capture in progress, throws to
\* the caller.
C5_ReservedKeyThrows ==
    [][\A error \in ErrorInputs, lc \in LocalContexts :
          (/\ enabled
           /\ ~isCapturing
           /\ DOMAIN lc \cap {"exception_class", "frames", "breadcrumbs"} # {}
           /\ CaptureError(error, lc))
          => NewestCall.result = "threw"]_vars

\* C6: a captureError or captureMessage invoked while tracking is disabled
\* returns null at once, with no serialization, hook or transport call, and
\* leaves the capturing flag, the scope and the breadcrumbs as they were;
\* invoked while tracking is enabled it is never rejected as disabled, and
\* is serialized unless the recursion guard rejects it.
C6_DisabledCapturesDoNothing ==
    [][CaptureStep =>
        IF ~enabled
        THEN /\ DidNothing(NewestCall)
             /\ NewestCall.exit = "disabled"
             /\ UNCHANGED <<isCapturing, context, tags, user, breadcrumbs, stack>>
        ELSE /\ NewestCall.exit # "disabled"
             /\ (NewestCall.kind = "message" \/ ~isCapturing)
                    => NewestCall.nSerialize = 1]_vars

C6_Witness ==
    \E c, d \in Ids :
        /\ c < d
        /\ calls[c].exit = "disabled" /\ calls[c].result = "null"
        /\ calls[d].nFetch = 1

\* C7: when the hook of a captureError returns null or another falsy value,
\* the call returns null and nothing is sent or posted.
C7_FalsyHookDropsEvent ==
    [][\A ret \in {Null, Bool(FALSE)} :
          (BeforeSendReturns(ret) /\ calls[Top].kind = "error")
          => /\ calls'[Top].pc = "done"
             /\ calls'[Top].result = "null"
             /\ calls'[Top].nSend = 0
             /\ calls'[Top].nFetch = 0]_vars

C7_Witness ==
    \E c \in Ids :
        /\ calls[c].kind = "error"
        /\ calls[c].exit = "hookDropped"
        /\ calls[c].result = "null"

\* C8: when the hook of a captureError throws, the call returns null,
\* nothing is sent or posted, the hook was invoked once for the call, and
\* no capture is started for the hook's error.
C8_ThrowingHookStops ==
    [][(BeforeSendThrows /\ calls[Top].kind = "error")
       => /\ calls'[Top].pc = "done"
          /\ calls'[Top].result = "null"
          /\ calls'[Top].nHook = 1
          /\ calls'[Top].nSend = 0
          /\ calls'[Top].nFetch = 0
          /\ Len(calls') = Len(calls)]_vars

C8_Witness ==
    \E c \in Ids :
        /\ calls[c].kind = "error"
        /\ calls[c].exit = "hookThrew"
        /\ calls[c].nHook = 1
        /\ calls[c].result = "null"

\* C9: the event handed to the transport after the hook returned an event
\* is the hook's return value.
C9_HookResultIsSent ==
    \A c \in Ids :
        (calls[c].pc = "await" /\ calls[c].nHook = 1)
        => calls[c].sent = calls[c].hookRet

C9_Witness ==
    \E c \in Ids :
        /\ calls[c].pc = "await"
        /\ calls[c].nFetch = 1
        /\ calls[c].hookRet = Modified(calls[c].event)
        /\ calls[c].sent = calls[c].hookRet

\* C10: an invocation calls the transport at most once and posts at most
\* one request; when the answer is not a 202 the call has returned null;
\* and a call that returned is never touched again.
C10_AtMostOneSend ==
    /\ [](\A c \in Ids :
            /\ calls[c].nSend <= 1
            /\ calls[c].nFetch <= 1
            /\ calls[c].answer \notin {"none", "202"}
                   => (calls[c].pc = "done" /\ calls[c].result = "null"))
    /\ [][\A c \in Ids :
            (calls[c].pc = "done" /\ c \in DOMAIN calls') => calls'[c] = calls[c]]_vars

C10_Witness ==
    \E c \in Ids :
        /\ calls[c].answer = "abort"
        /\ calls[c].nFetch = 1
        /\ calls[c].result = "null"

\* C11: when hooks end and requests are answered or aborted, every
\* captureError invocation returns, and a held guard is released: no call
\* waits forever and the client always comes back to idle.
C11_CapturesResolve ==
    /\ \A c \in 1..MaxLiveCalls :
          (IF c \in Ids THEN calls[c].kind = "error" ELSE FALSE)
          ~> (IF c \in Ids THEN calls[c].pc = "done" ELSE FALSE)
    /\ isCapturing ~> ~isCapturing

C11_Witness ==
    \E c \in Ids :
        /\ calls[c].kind = "error"
        /\ calls[c].exit = "sent"
        /\ calls[c].nHook = 1
        /\ calls[c].answer = "500"
        /\ ~isCapturing

\* C12: the timeout a constructed client gives to its transport is a
\* number of at most 10000 ms whatever timeout is configured, and it is
\* 5000 ms when none is configured.
C12_TimeoutCapped ==
    (last.op = "constructor" /\ ~last.threw)
    => /\ last.timeout.t = "number"
       /\ last.timeout.n <= MaxTimeout
       /\ last.config.timeout = <<>> => last.timeout = Num(DefaultTimeout)

C12_Witness ==
    /\ last.op = "constructor"
    /\ last.config.timeout = <<Num(10001)>>
    /\ last.timeout = Num(MaxTimeout)

\* C13: captureMessage neither tests nor sets the capturing flag.  Invoked
\* on an enabled client it is serialized and goes on to its hook or to the
\* transport, also while a captureError is in progress; no step of a
\* captureMessage changes the flag; and a captureError is rejected by the
\* guard only when another captureError is in progress.
C13_MessageNotGuarded ==
    [][/\ (CaptureStep /\ NewestCall.kind = "message" /\ enabled)
          => /\ NewestCall.nSerialize = 1
             /\ NewestCall.pc \in {"hook", "await"}
             /\ NewestCall.exit = "none"
       /\ (CaptureStep /\ NewestCall.exit = "guard")
          => /\ NewestCall.kind = "error"
             /\ \E c \in Ids : Capturing(c)
       /\ (\A c \in DOMAIN calls' :
              calls'[c].kind = "error" => (c \in Ids /\ calls'[c] = calls[c]))
          => isCapturing' = isCapturing]_vars

C13_Witness ==
    \E m, e \in Ids :
        /\ e \in Enclosing(m)
        /\ calls[e].kind = "error" /\ calls[e].pc = "hook"
        /\ calls[m].kind = "message" /\ calls[m].nFetch = 1
        /\ isCapturing

\* the last n elements of a sequence, all of it when it has fewer
LastOf(seq, n) ==
    IF Len(seq) <= n THEN seq ELSE SubSeq(seq, Len(seq) - n + 1, Len(seq))

\* C14: after any adds and clears on a buffer with a maximum of at least
\* 1, getCount() is the length of getAll() and at most the maximum, and
\* getAll() is the most recent min(n, max) of the n breadcrumbs added since
\* the last clear, in the order they were added.
C14_BufferKeepsNewest ==
    maxBreadcrumbs >= 1
    => /\ GetCount(breadcrumbs) = Len(GetAll(breadcrumbs))
       /\ GetCount(breadcrumbs) <= maxBreadcrumbs
       /\ GetAll(breadcrumbs) = LastOf(added, maxBreadcrumbs)

C14_Witness ==
    /\ maxBreadcrumbs = 2
    /\ Len(added) = 4
    /\ GetCount(breadcrumbs) = 2
    /\ GetAll(breadcrumbs) = <<added[3], added[4]>>
    /\ Cardinality({added[i] : i \in 1..4}) = 4

\* the latest call was a merge that returned
Merged == last.op = "merge" /\ ~last.threw

\* what overlaying with localContext[key] adds: the fields of an object,
\* the indexed parts of a string or an array, nothing when it is absent
LocalFields(key) ==
    IF key \in DOMAIN last.localContext
    THEN OwnProperties(last.localContext[key])
    ELSE EmptyMap

\* localContext[key] is absent or an object
AbsentOrObject(key) ==
    key \in DOMAIN last.localContext => last.localContext[key].t = "object"

\* C15: setContext fails exactly for the keys exception_class, frames,
\* queries, request and breadcrumbs; it accepts every other key, user and
\* tags among them.
C15_SetContextReserved ==
    last.op = "setContext"
    => (last.threw <=> last.key \in {"exception_class", "frames", "queries",
                                     "request", "breadcrumbs"})

C15_Witness ==
    /\ last.op = "setContext"
    /\ last.key = "user"
    /\ ~last.threw
    /\ "user" \in DOMAIN context

\* C16: whatever calls were made on the scope, failed ones included, its
\* context holds none of the five reserved keys.
C16_ContextHoldsNoReservedKey ==
    DOMAIN context \cap {"exception_class", "frames", "queries", "request",
                         "breadcrumbs"} = {}

C16_Witness ==
    /\ last.op = "setContext"
    /\ last.threw
    /\ DOMAIN context = {"order_id", "tags", "user"}

\* C17: merge fails exactly when the local context has one of the keys
\* exception_class, frames, breadcrumbs.
C17_MergeThrowsExactly ==
    last.op = "merge"
    => (last.threw <=> DOMAIN last.localContext
                           \cap {"exception_class", "frames", "breadcrumbs"} # {})

C17_Witness ==
    /\ last.op = "merge"
    /\ ~last.threw
    /\ DOMAIN last.localContext = {"request"}

\* C18 as stated: for every key that setContext accepts, merge({key: v})
\* on a context holding the key yields merged[key] = v, and every context
\* key absent from the local context keeps its value.
C18_LocalOverridesEveryKey ==
    (Merged /\ Cardinality(DOMAIN last.localContext) <= 1)
    => /\ \A key \in DOMAIN last.localContext \cap DOMAIN context :
             last.merged[key] = last.localContext[key]
       /\ \A key \in DOMAIN context \ DOMAIN last.localContext :
             last.merged[key] = context[key]

\* C18 amended: the same for every key other than tags and user, the two
\* keys that merge writes itself.
C18_LocalOverridesCustomKeys ==
    (Merged /\ Cardinality(DOMAIN last.localContext) <= 1)
    => /\ \A key \in (DOMAIN last.localContext \cap DOMAIN context) \ {"tags", "user"} :
             last.merged[key] = last.localContext[key]
       /\ \A key \in (DOMAIN context \ DOMAIN last.localContext) \ {"tags", "user"} :
             last.merged[key] = context[key]

C18_Witness ==
    /\ Merged
    /\ DOMAIN last.localContext = {"order_id"}
    /\ "order_id" \in DOMAIN context
    /\ context["order_id"] # last.localContext["order_id"]
    /\ last.merged["order_id"] = last.localContext["order_id"]

\* C19 as stated: the merged result has a tags key exactly when the global
\* tags are not empty or the local context has tags, and tags is then the
\* global tags overlaid by the local ones.
C19_TagsIffGlobalOrLocal ==
    Merged
    => /\ "tags" \in DOMAIN last.merged
              <=> (DOMAIN tags # {} \/ "tags" \in DOMAIN last.localContext)
       /\ "tags" \in DOMAIN last.merged
              => last.merged["tags"] = Obj(Spread(tags, LocalFields("tags")))

\* C19 amended: the merged result has a tags key exactly when the global
\* tags are not empty, the local context has a tags key, or the global
\* context holds a key tags; when the local tags are absent or an object and
\* there are global or local tags, tags is the global tags overlaid by the
\* local ones, the local value winning.
C19_TagsOverlay ==
    Merged
    => /\ "tags" \in DOMAIN last.merged
              <=> \/ DOMAIN tags # {}
                  \/ "tags" \in DOMAIN last.localContext
                  \/ "tags" \in DOMAIN context
       /\ (/\ AbsentOrObject("tags")
           /\ DOMAIN tags # {} \/ "tags" \in DOMAIN last.localContext)
              => last.merged["tags"] = Obj(Spread(tags, LocalFields("tags")))

C19_Witness ==
    /\ Merged
    /\ "region" \in DOMAIN tags
    /\ tags["region"] = Str(<<"u", "s">>)
    /\ "tier" \in DOMAIN tags
    /\ last.localContext = "tags" :> Obj("region" :> Str(<<"e", "u">>))
    /\ last.merged["tags"].m["region"] = Str(<<"e", "u">>)
    /\ last.merged["tags"].m["tier"] = tags["tier"]

\* C20 as stated: the merged result has a user key exactly when a global
\* user is set or the local context has a user, and user is then the global
\* user's fields overlaid by the local user's.
C20_UserIffGlobalOrLocal ==
    Merged
    => /\ "user" \in DOMAIN last.merged
              <=> (user # <<>> \/ "user" \in DOMAIN last.localContext)
       /\ "user" \in DOMAIN last.merged
              => last.merged["user"] =
                     Obj(Spread(IF user # <<>> THEN user[1] ELSE EmptyMap,
                                LocalFields("user")))

\* C20 amended: the merged result has a user key exactly when a global user
\* is set, the local context has a user key, or the global context holds a
\* key user; when the local user is absent or an object and there is a
\* global or a local user, user is the global user's fields overlaid by the
\* local user's, field by field.
C20_UserShallowMerge ==
    Merged
    => /\ "user" \in DOMAIN last.merged
              <=> \/ user # <<>>
                  \/ "user" \in DOMAIN last.localContext
                  \/ "user" \in DOMAIN context
       /\ (/\ AbsentOrObject("user")
           /\ user # <<>> \/ "user" \in DOMAIN last.localContext)
              => last.merged["user"] =
                     Obj(Spread(IF user # <<>> THEN user[1] ELSE EmptyMap,
                                LocalFields("user")))

C20_Witness ==
    /\ Merged
    /\ user = <<("id" :> Str(<<"1">>)) @@ ("email" :> Str(<<"a">>))>>
    /\ last.localContext = "user" :> Obj("id" :> Str(<<"9">>))
    /\ last.merged["user"] = Obj(("id" :> Str(<<"9">>)) @@ ("email" :> Str(<<"a">>)))

\* the scope and the breadcrumb buffer hold nothing
ScopeIsEmpty ==
    context = EmptyMap /\ tags = EmptyMap /\ user = <<>> /\ breadcrumbs = <<>>

\* the keys of the event's extra_context, none when it is absent
ExtraKeys(event) ==
    IF event.extra_context = <<>> THEN {} ELSE DOMAIN event.extra_context[1]

\* the keys of the local context that a capture of SpecFlow passes
FlowLocalKeys(call) == IF call.kind = "error" THEN DOMAIN FlowLocal ELSE {}

\* C21: clearScope() leaves the context, the tags, the user and the
\* breadcrumb buffer empty, and an event captured while they are empty
\* carries no user, no breadcrumbs, no tags and no context key other than
\* those of the capture's own local context.
C21_ClearScopeEmptiesAll ==
    [][/\ ClearScope => ScopeIsEmpty'
       /\ (CaptureStep /\ ScopeIsEmpty /\ NewestCall.pc = "await") =>
            /\ "user" \notin DOMAIN NewestCall.event.context[1]
            /\ "breadcrumbs" \notin DOMAIN NewestCall.event.context[1]
            /\ ExtraKeys(NewestCall.event) \subseteq FlowLocalKeys(NewestCall)]_vars

\* an event captured with a context key, a tag, a user and a breadcrumb set
\* is still in flight, the scope has been cleared since, and an event
\* captured after that carries none of them
C21_Witness ==
    \E c \in Ids, d \in Ids :
        /\ c < d
        /\ ScopeIsEmpty
        /\ calls[c].pc = "await" /\ calls[d].pc = "await"
        /\ {"order_id", "tags"} \subseteq ExtraKeys(calls[c].event)
        /\ {"user", "breadcrumbs"} \subseteq DOMAIN calls[c].event.context[1]
        /\ ExtraKeys(calls[d].event) \subseteq FlowLocalKeys(calls[d])
        /\ {"user", "breadcrumbs"} \cap DOMAIN calls[d].event.context[1] = {}

\* the event carries what the scope and the breadcrumb buffer hold now
CarriesScope(event) ==
    /\ \A key \in DOMAIN context :
            /\ key \in ExtraKeys(event)
            /\ event.extra_context[1][key] = context[key]
    /\ tags # EmptyMap =>
            /\ "tags" \in ExtraKeys(event)
            /\ event.extra_context[1]["tags"] = Obj(tags)
    /\ user # <<>> =>
            /\ "user" \in DOMAIN event.context[1]
            /\ event.context[1]["user"] = Obj(user[1])
    /\ breadcrumbs # <<>> =>
            /\ "breadcrumbs" \in DOMAIN event.context[1]
            /\ event.context[1]["breadcrumbs"] = Arr(breadcrumbs)

\* C22: a step of captureError or captureMessage (the invocation, or the
\* continuation when the transport settles) leaves the scope's context,
\* tags and user and the breadcrumb buffer as they were, and the event of
\* every capture carries the values they hold at that time: a value set
\* once is in every later event until it is overwritten or cleared.
C22_CapturesLeaveScopeAlone ==
    [][calls' # calls =>
        /\ UNCHANGED <<context, tags, user, breadcrumbs>>
        /\ (CaptureStep /\ NewestCall.pc = "await") =>
                CarriesScope(NewestCall.event)]_vars

\* two events in flight, captured one after the other, both carry the
\* context value, the tag, the user and the breadcrumb that are still set
C22_Witness ==
    \E c \in Ids, d \in Ids :
        /\ c < d
        /\ ~ScopeIsEmpty
        /\ DOMAIN context # {} /\ tags # EmptyMap /\ user # <<>> /\ breadcrumbs # <<>>
        /\ calls[c].pc = "await" /\ calls[d].pc = "await"
        /\ CarriesScope(calls[c].event)
        /\ CarriesScope(calls[d].event)

\* the event that the last call of the serializer returned, and the merged
\* context it was built from
Serialized == last.op \in {"serialize", "serializeMessage"} /\ ~last.threw
MergedOfLast == Merge(context, tags, user, last.localContext)
ContextKeysOf(event) == DOMAIN event.context[1]

\* C23 as stated: the keys of an event's context are among exception_class,
\* frames, queries, request and breadcrumbs, and every other merged key is
\* in extra_context.
C23_ContextKeysAmongFive ==
    Serialized =>
        /\ ContextKeysOf(last.event) \subseteq
                {"exception_class", "frames", "queries", "request", "breadcrumbs"}
        /\ \A key \in DOMAIN MergedOfLast :
                key \notin {"exception_class", "frames", "queries", "request",
                            "breadcrumbs"}
                    => key \in ExtraKeys(last.event)

\* C23, amended: the keys of an event's context are among exception_class,
\* frames, queries, request, user and breadcrumbs, and every other merged
\* key is in extra_context.
C23_ContextKeysAmongSix ==
    Serialized =>
        /\ ContextKeysOf(last.event) \subseteq
                {"exception_class", "frames", "queries", "request", "user",
                 "breadcrumbs"}
        /\ \A key \in DOMAIN MergedOfLast :
                key \notin {"exception_class", "frames", "queries", "request", "user",
                            "breadcrumbs"}
                    => key \in ExtraKeys(last.event)

\* an error serialized with a user, a request and queries next to custom
\* keys and tags: the first three are in context, the others in extra_context
C23_Witness ==
    /\ Serialized /\ last.op = "serialize"
    /\ {"user", "request", "queries", "exception_class", "frames", "breadcrumbs"}
            \subseteq ContextKeysOf(last.event)
    /\ ExtraKeys(last.event) = {"order_id", "tags"}

\* C24: the user, set with setUser or given in the local context, is in the
\* event under context.user and never in extra_context; the tags and every
\* custom key are in extra_context and never in context.
C24_UserInContextRestInExtra ==
    Serialized =>
        /\ (user # <<>> \/ HasTruthy(last.localContext, "user")) =>
                /\ "user" \in ContextKeysOf(last.event)
                /\ last.event.context[1]["user"] = MergedOfLast["user"]
        /\ "user" \notin ExtraKeys(last.event)
        /\ (tags # EmptyMap \/ HasTruthy(last.localContext, "tags")) =>
                /\ "tags" \in ExtraKeys(last.event)
                /\ last.event.extra_context[1]["tags"] = MergedOfLast["tags"]
        /\ "tags" \notin ContextKeysOf(last.event)
        /\ \A key \in (DOMAIN context \cup DOMAIN last.localContext)
                        \ {"user", "request", "queries"} :
                /\ key \in ExtraKeys(last.event)
                /\ key \notin ContextKeysOf(last.event)

\* an event built from a user set globally and one given locally, tags and
\* a custom key: the user is in context, the tags and the key in extra_context
C24_Witness ==
    /\ Serialized
    /\ user # <<>> /\ HasTruthy(last.localContext, "user")
    /\ tags # EmptyMap
    /\ "order_id" \in DOMAIN last.localContext
    /\ last.event.context[1]["user"] =
            Obj(("id" :> Str(<<"9">>)))
    /\ ExtraKeys(last.event) = {"order_id", "tags"}

\* the place and the value of a merged key in the event: in context only,
\* or in extra_context only
PlacedOnce(event, key, value) ==
    \/ /\ key \in ContextKeysOf(event) /\ key \notin ExtraKeys(event)
       /\ event.context[1][key] = value
    \/ /\ key \in ExtraKeys(event) /\ key \notin ContextKeysOf(event)
       /\ event.extra_context[1][key] = value

\* C25 as stated: every key of the merged context is in exactly one of
\* context and extra_context, with its merged value; the two key sets are
\* disjoint and together hold every merged key.
C25_EveryKeyOnceWithItsValue ==
    Serialized =>
        /\ \A key \in DOMAIN MergedOfLast :
                PlacedOnce(last.event, key, MergedOfLast[key])
        /\ ContextKeysOf(last.event) \cap ExtraKeys(last.event) = {}
        /\ DOMAIN MergedOfLast \subseteq
                ContextKeysOf(last.event) \cup ExtraKeys(last.event)

\* C25, amended: the same, except that a merged queries value that is falsy
\* is replaced in context by an empty array.
C25_EveryKeyOnceQueriesDefaulted ==
    Serialized =>
        /\ \A key \in DOMAIN MergedOfLast :
                PlacedOnce(last.event, key,
                           IF key = "queries" /\ ~Truthy(MergedOfLast[key])
                           THEN Arr(<<>>)
                           ELSE MergedOfLast[key])
        /\ ContextKeysOf(last.event) \cap ExtraKeys(last.event) = {}
        /\ DOMAIN MergedOfLast \subseteq
                ContextKeysOf(last.event) \cup ExtraKeys(last.event)

\* a local context with user, request, queries and a custom key, merged
\* with a global context key, tags and user, is split over both mappings
C25_Witness ==
    /\ Serialized
    /\ DOMAIN MergedOfLast = {"order_id", "tags", "user", "request", "queries"}
    /\ \A key \in {"user", "request", "queries"} :
            last.event.context[1][key] = MergedOfLast[key]
    /\ \A key \in {"order_id", "tags"} :
            last.event.extra_context[1][key] = MergedOfLast[key]

\* serialize was last called with a non-empty string as the error
SerializedString ==
    /\ last.op = "serialize" /\ ~last.threw
    /\ last.error.t = "string" /\ last.error.s # <<>>

\* C26 as stated: serializing a string such as "x" in place of an error
\* yields an event whose message is the string and that has no stack_trace.
C26_StringHasNoStackTrace ==
    SerializedString =>
        /\ last.event.message = last.error.s
        /\ last.event.stack_trace = <<>>

\* C26, amended: serializing a string such as "x" in place of an error
\* yields an event whose message is the string and whose stack_trace is
\* the stack of an Error created while the stack trace is extracted.
C26_StringHasNewStackTrace ==
    SerializedString =>
        /\ last.event.message = last.error.s
        /\ last.event.stack_trace = <<NewErrorStack>>

\* the string "x" has been serialized
C26_Witness ==
    /\ SerializedString
    /\ last.error = Str(<<"x">>)
    /\ last.event.message = <<"x">>
    /\ last.event.stack_trace # <<>>

\* send posted the event that last holds
Posted == last.op = "send" /\ ~last.threw

\* C27: a message of more than 10000 characters is posted as its first
\* 10000 characters followed by '...[truncated]'; a message of at most
\* 10000 characters is posted unchanged.
C27_LongMessageTruncated ==
    Posted =>
        last.posted.message =
            IF Len(last.event.message) > 10000
            THEN SubSeq(last.event.message, 1, 10000)
                    \o <<".",".",".","[","t","r","u","n","c","a","t","e","d","]">>
            ELSE last.event.message

\* a message of 11000 characters has been posted with 10014
C27_Witness ==
    /\ Posted
    /\ Len(last.event.message) = 11000
    /\ Len(last.posted.message) = 10014
    /\ last.posted.message[10001] = "."
    /\ last.posted.message[10000] = "a"

\* C28: every event that send posts has a message of at most 10000
\* characters and, when it has a stack trace, one of at most 500000
\* characters.
C28_PostedWithinLimits ==
    Posted =>
        /\ Len(last.posted.message) <= 10000
        /\ last.posted.stack_trace # <<>> =>
                Len(last.posted.stack_trace[1]) <= 500000

\* C29: every event that send posts has an extra_context, when it has one,
\* whose JSON text has at most 256000 characters.
C29_PostedExtraContextWithinLimit ==
    Posted =>
        (last.posted.extra_context # <<>> =>
            JsonLen(Obj(last.posted.extra_context[1])) <= 256000)

\* the text holds the part as a substring
Contains(text, part) ==
    \E i \in 1..(Len(text) - Len(part) + 1) :
        SubSeq(text, i, i + Len(part) - 1) = part

\* the number of characters of the JSON text of the context given to send
ContextSizeOfLast ==
    IF last.event.context = <<>> THEN 0 ELSE JsonLen(Obj(last.event.context[1]))

Sent == last.op = "send"

\* C31: an event whose level is not one of the five, or whose message is
\* empty, is never posted: send makes no request and returns null.
C31_InvalidEventNotSent ==
    (Sent /\ (last.event.message = <<>>
                \/ last.event.level \notin
                        {"critical", "error", "warning", "info", "debug"})) =>
        /\ last.posted = Null
        /\ last.answer = "invalid"
        /\ last.result = "null"

\* send has returned null for an event with a message and the level fatal,
\* and for nothing did it make a request
C31_Witness ==
    /\ Sent
    /\ last.event.level = "fatal" /\ last.event.message # <<>>
    /\ last.posted = Null
    /\ last.result = "null"

\* the answers whose status is 202
Status202 == {"202", "202-unreadable-body"}

\* C32: send returns an event id whenever the status of the response is
\* 202, and null for 401, 400 and every other status.
C32_ResultByStatus ==
    (Posted /\ last.result # "pending") =>
        /\ last.answer \in Status202 => last.result = "evt"
        /\ last.answer \in {"401", "400", "400-unreadable-body", "200", "500", "503"}
                => last.result = "null"

\* C33: send never throws: it returns an event id or null, and null when
\* validation fails, the network fails, the request is aborted, the
\* status is unexpected or the body of the response can not be read.
C33_SendNeverThrows ==
    (Sent /\ last.result # "pending") =>
        /\ last.result \in {"evt", "null"}
        /\ (last.threw \/ last.answer \in
                {"network-error", "abort", "200", "500", "503",
                 "202-unreadable-body", "400-unreadable-body"})
                => last.result = "null"

\* a response with status 400 whose body can not be read has given null
C33_Witness ==
    /\ Posted
    /\ last.answer = "400-unreadable-body"
    /\ last.result = "null"

\* C36: a captureError call that the recursion guard rejects leaves the
\* capturing flag set and every capture in progress in progress; the flag
\* is reset only by a step in which the capture in progress finishes, so
\* every later attempt made during that capture is rejected as well.
C36_RejectedCallKeepsGuard ==
    [][/\ (CaptureStep /\ NewestCall.kind = "error" /\ NewestCall.exit = "guard") =>
            /\ isCapturing /\ isCapturing'
            /\ \A c \in Ids : Capturing(c) => calls'[c] = calls[c]
       /\ (isCapturing /\ ~isCapturing') =>
            \E c \in Ids : Capturing(c) /\ calls'[c].pc = "done"
       /\ (CaptureStep /\ NewestCall.kind = "error" /\ enabled /\ isCapturing) =>
            NewestCall.exit = "guard"]_vars

\* two attempts made while one capture awaits the transport have both been
\* rejected, and the guard is still held by that capture
C36_Witness ==
    \E c \in Ids, d \in Ids, e \in Ids :
        /\ c < d /\ d < e
        /\ Capturing(c)
        /\ calls[d].kind = "error" /\ calls[d].exit = "guard"
        /\ calls[e].kind = "error" /\ calls[e].exit = "guard"
        /\ isCapturing

\* the breadcrumbs that an event carries, none when it has no such key
EventCrumbs(event) ==
    IF "breadcrumbs" \in DOMAIN event.context[1]
    THEN event.context[1]["breadcrumbs"].a
    ELSE <<>>

\* the call holds the event it serialized
HoldsEvent(call) == call.pc \in {"hook", "await"}

\* C37: the breadcrumbs of the event of a capture are the contents of the
\* buffer when captureError or captureMessage was invoked, and no later
\* step (addBreadcrumb or clearScope from the hook or while the transport
\* is awaited) changes them in the event.
C37_EventKeepsItsBreadcrumbs ==
    [][/\ (CaptureStep /\ HoldsEvent(NewestCall)) =>
            EventCrumbs(NewestCall.event) = breadcrumbs
       /\ \A c \in Ids :
            (HoldsEvent(calls[c]) /\ c \in DOMAIN calls' /\ HoldsEvent(calls'[c])) =>
                EventCrumbs(calls'[c].event) = EventCrumbs(calls[c].event)]_vars

\* an event captured with one breadcrumb in the buffer went through the
\* hook and is being sent with that breadcrumb, while the buffer has been
\* cleared since
C37_Witness ==
    \E c \in Ids :
        /\ calls[c].pc = "await" /\ calls[c].nHook = 1 /\ calls[c].nFetch = 1
        /\ Len(EventCrumbs(calls[c].event)) = 1
        /\ EventCrumbs(calls[c].posted) = EventCrumbs(calls[c].event)
        /\ breadcrumbs = <<>>

(***************************************************************************)
(* The automatic handlers (SpecNode).                                      *)
(***************************************************************************)
\* the texts by which the code tells the SDK
SdkIdentifiers == {KeplogPackage, KeplogName, KeplogTag, KeplogDir}

References(text) == \E id \in SdkIdentifiers : Includes(text, id)

\* the message or the stack of the value references the SDK
OfSdkOrigin(value) ==
    CASE value.t = "Error" -> References(ErrorToString(value)) \/ References(value.stack)
      [] value.t = "string" -> References(value.s)
      [] OTHER -> FALSE

\* every listener of signal s has been called
Delivered(s) == s < Len(node.signals) \/ node.emitting = <<>>

\* the runs of the signal s that called captureError
CallsFor(s) ==
    {r \in DOMAIN node.runs : node.runs[r].signal = s /\ node.runs[r].call # 0}

\* the marker that the handler of a signal kind puts into the context
MarkerOf(kind) == IF kind = "uncaughtException" THEN "uncaught" ELSE "unhandled_rejection"

\* the event of the call carries the marker of the kind
Marked(call, kind) ==
    /\ call.sent.extra_context # <<>>
    /\ MarkerOf(kind) \in DOMAIN call.sent.extra_context[1]
    /\ call.sent.extra_context[1][MarkerOf(kind)] = Bool(TRUE)

\* C34: while the handlers are installed, each uncaught exception and each
\* unhandled rejection that is not of SDK origin leads to exactly one
\* captureError call, whose context carries the marker of its handler.
C34_OneCaptureErrorPerSignal ==
    \A s \in DOMAIN node.signals :
        (Delivered(s) /\ node.signals[s].installed
                      /\ ~OfSdkOrigin(node.signals[s].value)) =>
            /\ Cardinality(CallsFor(s)) = 1
            /\ \A r \in CallsFor(s) :
                    calls[node.runs[r].call].pc = "await" =>
                        Marked(calls[node.runs[r].call], node.signals[s].kind)

\* C35: a signal whose error references the SDK in its message or in its
\* stack is skipped: its handler makes no captureError call.
C35_SdkSignalsSkipped ==
    \A r \in DOMAIN node.runs :
        OfSdkOrigin(node.signals[node.runs[r].signal].value) =>
            node.runs[r].pc = "skipped" /\ node.runs[r].call = 0

Requested(n, r) == n.runs[r].pc \in {"timer", "exited"}

C40_UninstallRemovesListeners ==
    [][(node' = Uninstall(node) /\ UNCHANGED clientVars) =>
            /\ node'.onUncaughtException = <<>>
            /\ node'.onUnhandledRejection = <<>>
            /\ (node.uncaughtExceptionHandler = 0 /\ node.unhandledRejectionHandler = 0) =>
                    node' = node]_vars

====
